---- MODULE Spec2Model ----
(***************************************************************************)
(* A model of genv: the generation engine (src/src/generator.ts), the path  *)
(* rules (path.util), the configuration parser and the command line.       *)
(*                                                                         *)
(* Strings are sequences of symbols.  A symbol is one character ("$",      *)
(* "{", "}", "/", "A", ...) or a fixed fragment of text that no operation  *)
(* of the program ever splits ("shared:", "true", " not found", ...).  The *)
(* alphabets below are chosen so that every string has exactly one         *)
(* spelling, hence string equality is sequence equality.                   *)
(*                                                                         *)
(* JavaScript values are records with a tag t.  A JavaScript object is its *)
(* sequence of own enumerable entries, in own-property order (the order of *)
(* Object.entries / Object.keys); property reads also see the members      *)
(* every plain object inherits from Object.prototype.                      *)
(***************************************************************************)
EXTENDS Integers, Sequences, FiniteSets, TLC

VARIABLES
    pc,           \* "idle", or the function that returned last
    config,       \* the configuration [shared, apps] handed to the generator
    value,        \* resolveVariable: the string argument
    sharedVars,   \* resolveVariable: the shared-variable mapping argument
    appName,      \* generateEnvFile: the application name argument
    environment,  \* generateEnvFile: the environment name argument
    outputDir,    \* generateAllEnvFiles: the output directory argument
    rootDir,      \* generateAllEnvFiles: the root directory argument
    lines,        \* generateEnvContent: the local array `lines` at its return
    result,       \* what the call returned (or threw)
    options,      \* path.util: the PathOptions / PathConfig argument
    document,     \* parseConfig: the document the YAML text parses to
    args,         \* runCLI: the parsed command line
    disk,         \* runCLI: the paths that exist, with the content of the files
    written,      \* runCLI: the writeFile calls made, in order
    calls,        \* runCLI: the mkdir and writeFile calls made, in order;
                  \* findAppDirectory: the paths handed to pathExists, in order
    exitCode,     \* runCLI: the status returned
    lastIndex,    \* generator.ts: VARIABLE_REF_PATTERN.lastIndex, kept by the module
    history       \* the generateEnvFile calls made since the module was loaded

vars == <<pc, config, value, sharedVars, appName, environment, outputDir,
          rootDir, lines, result, options, document, args, disk, written, calls, exitCode,
          lastIndex, history>>

\* the state of the generator calls
generatorVars == <<config, value, sharedVars, appName, environment, outputDir,
                   rootDir, lines>>

\* the state of the parser and of the command line
cliVars == <<document, args, disk, written, calls, exitCode>>

\* the state the generator module keeps from one call to the next
moduleVars == <<lastIndex, history>>

----------------------------------------------------------------------------
(* Bounds of the model. *)

MaxPieces == 3   \* pieces a resolveVariable argument is assembled from
MaxVars == 2     \* variables of the environment under study
MaxApps == 2     \* applications of a multi-application configuration
MaxEnvs == 2     \* environments of one such application
MaxCalls == 3    \* calls made on one module instance

----------------------------------------------------------------------------
(* JavaScript values. *)

JUndefined == [t |-> "undefined", s |-> <<>>, n |-> 0, b |-> FALSE, o |-> <<>>]
JStr(x) == [t |-> "string", s |-> x, n |-> 0, b |-> FALSE, o |-> <<>>]
JNum(x) == [t |-> "number", s |-> <<>>, n |-> x, b |-> FALSE, o |-> <<>>]
JBool(x) == [t |-> "boolean", s |-> <<>>, n |-> 0, b |-> x, o |-> <<>>]
JObj(entries) == [t |-> "object", s |-> <<>>, n |-> 0, b |-> FALSE, o |-> entries]
\* a built-in function object such as Object.prototype.constructor: it has no
\* own enumerable property
JFun == [t |-> "function", s |-> <<>>, n |-> 0, b |-> FALSE, o |-> <<>>]
JNull == [t |-> "null", s |-> <<>>, n |-> 0, b |-> FALSE, o |-> <<>>]

Entry(k, v) == [k |-> k, v |-> v]

\* names every plain object inherits from Object.prototype (one stands for all)
InheritedNames == {<<"constructor">>}

\* Object.keys(x)
Keys(x) == [i \in 1..Len(x.o) |-> x.o[i].k]

HasOwn(x, k) == \E i \in 1..Len(x.o) : x.o[i].k = k

\* x[k] for an object or function x: the own property, else the inherited one
Get(x, k) ==
    IF HasOwn(x, k)
        THEN x.o[CHOOSE i \in 1..Len(x.o) : x.o[i].k = k].v
    ELSE IF k \in InheritedNames THEN JFun
    ELSE JUndefined

\* k in x
In(k, x) == HasOwn(x, k) \/ k \in InheritedNames

\* ToBoolean(x), as `if (x)` and `!x` apply it
Truthy(x) ==
    CASE x.t \in {"undefined", "null"} -> FALSE
      [] x.t = "string" -> x.s # <<>>
      [] x.t = "number" -> x.n # 0
      [] x.t = "boolean" -> x.b
      [] OTHER -> TRUE

\* the decimal digits of a natural number
RECURSIVE Digits(_)
Digits(n) ==
    IF n < 10
        THEN <<CASE n = 0 -> "0" [] n = 1 -> "1" [] n = 2 -> "2" [] n = 3 -> "3"
                 [] n = 4 -> "4" [] n = 5 -> "5" [] n = 6 -> "6" [] n = 7 -> "7"
                 [] n = 8 -> "8" [] OTHER -> "9">>
    ELSE Digits(n \div 10) \o Digits(n % 10)

\* String(x)
StringOf(x) ==
    CASE x.t = "string" -> x.s
      [] x.t = "number" -> IF x.n < 0 THEN <<"-">> \o Digits(0 - x.n) ELSE Digits(x.n)
      [] x.t = "boolean" -> IF x.b THEN <<"true">> ELSE <<"false">>
      [] x.t = "undefined" -> <<"undefined">>
      [] x.t = "null" -> <<"null">>
      [] x.t = "function" -> <<"function Object() { [native code] }">>
      [] OTHER -> <<"[object Object]">>

\* xs.join(sep) for an array of strings
RECURSIVE Join(_, _)
Join(xs, sep) ==
    IF xs = <<>> THEN <<>>
    ELSE IF Len(xs) = 1 THEN xs[1]
    ELSE xs[1] \o sep \o Join(Tail(xs), sep)

----------------------------------------------------------------------------
(* Results: neverthrow's ok(value) / err(new Error(message)), or an uncaught   *)
(* exception.  `files` is the value of generateAllEnvFiles.                    *)

Ok(v) == [t |-> "ok", value |-> v, message |-> <<>>, files |-> <<>>]
Err(m) == [t |-> "err", value |-> <<>>, message |-> m, files |-> <<>>]
OkFiles(fs) == [t |-> "ok", value |-> <<>>, message |-> <<>>, files |-> fs]
Thrown == [t |-> "throw", value |-> <<>>, message |-> <<"TypeError">>, files |-> <<>>]
NoResult == [t |-> "none", value |-> <<>>, message |-> <<>>, files |-> <<>>]

\* the variables of the other operations while a call does not use them
NoOptions == [appName |-> <<>>, envName |-> <<>>, app |-> JUndefined,
              envConfig |-> JUndefined, autoDetectedDir |-> JNull,
              outputDir |-> <<>>, rootDir |-> <<>>]
NoArgs == [init |-> FALSE, apply |-> FALSE, all |-> FALSE, app |-> JUndefined,
           env |-> JUndefined, config |-> <<>>]
NoExit == <<>>

----------------------------------------------------------------------------
(* resolveVariable *)

\* the literal text that opens VARIABLE_REF_PATTERN: ${shared:
PatternPrefix == <<"$", "{", "shared:">>

\* the index of the first "}" of s at or after i, 0 when there is none
RECURSIVE FirstClose(_, _)
FirstClose(s, i) ==
    IF i > Len(s) THEN 0
    ELSE IF s[i] = "}" THEN i
    ELSE FirstClose(s, i + 1)

\* VARIABLE_REF_PATTERN applied at index i of s: the index of the "}" that ends
\* the match, 0 when the pattern does not match there.  ([^}]+ takes at least
\* one symbol and stops before the first "}".)
MatchEndAt(s, i) ==
    IF i + 2 <= Len(s) /\ SubSeq(s, i, i + 2) = PatternPrefix
        THEN LET j == FirstClose(s, i + 3) IN IF j > i + 3 THEN j ELSE 0
    ELSE 0

\* the message of the Error the replace callback creates
MissingMessage(varName) == <<"Shared variable ", "'">> \o varName \o <<"'", " not found">>

NoError == [set |-> FALSE, message |-> <<>>]

\* the replace callback: what it returns for one match, and the hasError it sets
ReplaceCallback(val, varName, shared, hasError) ==
    LET resolvedVar == Get(shared, varName)
    IN  IF resolvedVar = JUndefined
            THEN [ret |-> val,
                  hasError |-> [set |-> TRUE, message |-> MissingMessage(varName)]]
        ELSE [ret |-> StringOf(resolvedVar), hasError |-> hasError]

\* value.replace(VARIABLE_REF_PATTERN, callback) from index i on: every match,
\* left to right, none overlapping; acc is [resolved, hasError] so far
RECURSIVE ReplaceFrom(_, _, _, _)
ReplaceFrom(val, i, shared, acc) ==
    IF i > Len(val) THEN acc
    ELSE LET j == MatchEndAt(val, i)
         IN  IF j = 0
                 THEN ReplaceFrom(val, i + 1, shared,
                         [acc EXCEPT !.resolved = Append(@, val[i])])
             ELSE LET r == ReplaceCallback(val, SubSeq(val, i + 3, j - 1),
                                           shared, acc.hasError)
                  IN  ReplaceFrom(val, j + 1, shared,
                          [resolved |-> acc.resolved \o r.ret, hasError |-> r.hasError])

\* a replace with a pattern that lacks the g flag: the first match only
ReplaceFirstOnly(val, shared) ==
    LET starts == {i \in 1..Len(val) : MatchEndAt(val, i) # 0}
    IN  IF starts = {} THEN [resolved |-> val, hasError |-> NoError]
        ELSE LET i == CHOOSE a \in starts : \A b \in starts : a <= b
                 j == MatchEndAt(val, i)
                 r == ReplaceCallback(val, SubSeq(val, i + 3, j - 1), shared, NoError)
             IN  [resolved |-> SubSeq(val, 1, i - 1) \o r.ret
                                 \o SubSeq(val, j + 1, Len(val)),
                  hasError |-> r.hasError]

\* value.replace(VARIABLE_REF_PATTERN, callback)
ReplaceAll(val, shared) ==
    ReplaceFrom(val, 1, shared, [resolved |-> <<>>, hasError |-> NoError])

\* a resolveVariable that scans the substituted text once more
resolveVariableRescanning(v, sv) ==
    LET r == ReplaceAll(v, sv)
        again == ReplaceAll(r.resolved, sv)
    IN  IF r.hasError.set THEN Err(r.hasError.message)
        ELSE IF again.hasError.set THEN Err(again.hasError.message)
        ELSE Ok(again.resolved)

resolveVariable(v, sv) ==
    LET r == ReplaceAll(v, sv)
    IN  IF r.hasError.set THEN Err(r.hasError.message) ELSE Ok(r.resolved)

----------------------------------------------------------------------------
(* generateEnvContent and its helpers *)

IsScalar(x) == x.t \in {"string", "number", "boolean"}

\* { value, comment } of a variable given bare or as an annotated object
extractVariableValue(varValue) ==
    IF IsScalar(varValue)
        THEN [value |-> varValue, comment |-> JUndefined]
    ELSE [value |-> Get(varValue, <<"value">>), comment |-> Get(varValue, <<"comment">>)]

convertValueToString(raw) == StringOf(raw)

\* a value part that puts string values between double quotes
FormatValueQuoted(resolved, stringValue, rawValue) ==
    IF rawValue.t \in {"number", "boolean"} /\ resolved = stringValue THEN StringOf(rawValue)
    ELSE <<"\"">> \o resolved \o <<"\"">>

\* the value part of the assignment line (generator.ts, the three branches)
FormatValue(resolved, stringValue, rawValue) ==
    IF resolved # stringValue THEN resolved
    ELSE IF rawValue.t \in {"number", "boolean"} THEN StringOf(rawValue)
    ELSE resolved

\* `# ${inlineComment}`
CommentLine(comment) == <<"# ">> \o comment

\* `${key}=${formattedValue}`
AssignmentLine(key, formatted) == key \o <<"=">> \o formatted

\* the lines one variable pushes once its value resolved
VariableLines(key, ex, formatted) ==
    (IF Truthy(ex.comment) THEN <<CommentLine(StringOf(ex.comment))>> ELSE <<>>)
        \o <<AssignmentLine(key, formatted)>>

\* the lines joined without the final newline
RenderLinesUnterminated(ls) == Join(ls, <<"\n">>)

\* `${lines.join("\n")}\n`
RenderLines(ls) == Join(ls, <<"\n">>) \o <<"\n">>

ResolveFailure(key, message) ==
    <<"Failed to resolve variable for ">> \o key \o <<": ">> \o message

\* the for loop of generateEnvContent from entry i on; ls is `lines` so far
RECURSIVE ContentLoop(_, _, _, _)
ContentLoop(entries, i, shared, ls) ==
    IF i > Len(entries) THEN [result |-> Ok(RenderLines(ls)), lines |-> ls]
    ELSE LET key == entries[i].k
             ex == extractVariableValue(entries[i].v)
             stringValue == convertValueToString(ex.value)
             resolvedResult == resolveVariable(stringValue, shared)
         IN  IF resolvedResult.t = "err"
                 THEN [result |-> Err(ResolveFailure(key, resolvedResult.message)),
                       lines |-> ls]
             ELSE ContentLoop(entries, i + 1, shared,
                     ls \o VariableLines(key, ex,
                             FormatValue(resolvedResult.value, stringValue, ex.value)))

\* Object.entries(variables) in reverse
ReversedEntries(variables) ==
    [i \in 1..Len(variables.o) |-> variables.o[Len(variables.o) + 1 - i]]

\* Object.entries(variables)
ObjectEntries(variables) == variables.o

\* returns [result, lines]
generateEnvContent(variables, shared) ==
    ContentLoop(ObjectEntries(variables), 1, shared, <<>>)

getEnvironmentVariables(env) ==
    IF In(<<"variables">>, env) /\ Get(env, <<"variables">>).t = "object"
        THEN Get(env, <<"variables">>)
    ELSE env

\* generator.ts's getEnvironmentConfig: the `path` of { path?: string }
getEnvironmentConfig(env) ==
    IF In(<<"path">>, env)
        THEN IF Get(env, <<"path">>).t = "string" THEN Get(env, <<"path">>) ELSE JUndefined
    ELSE JUndefined

----------------------------------------------------------------------------
(* Paths: node:path's join (POSIX) *)

\* p split at every "/"
RECURSIVE SplitPath(_, _, _)
SplitPath(p, cur, acc) ==
    IF p = <<>> THEN Append(acc, cur)
    ELSE IF Head(p) = "/" THEN SplitPath(Tail(p), <<>>, Append(acc, cur))
    ELSE SplitPath(Tail(p), Append(cur, Head(p)), acc)

\* normalizeString: drop empty and "." segments, resolve ".."
RECURSIVE NormalizeSegments(_, _, _)
NormalizeSegments(segs, isAbs, stack) ==
    IF segs = <<>> THEN stack
    ELSE LET seg == Head(segs)
         IN  IF seg = <<>> \/ seg = <<".">>
                 THEN NormalizeSegments(Tail(segs), isAbs, stack)
             ELSE IF seg = <<".", ".">>
                 THEN IF stack # <<>> /\ stack[Len(stack)] # <<".", ".">>
                          THEN NormalizeSegments(Tail(segs), isAbs,
                                   SubSeq(stack, 1, Len(stack) - 1))
                      ELSE IF isAbs THEN NormalizeSegments(Tail(segs), isAbs, stack)
                      ELSE NormalizeSegments(Tail(segs), isAbs, Append(stack, seg))
             ELSE NormalizeSegments(Tail(segs), isAbs, Append(stack, seg))

\* path.normalize of a non-empty path
NormalizePath(p) ==
    LET isAbs == Head(p) = "/"
        trailing == p[Len(p)] = "/"
        body == Join(NormalizeSegments(SplitPath(p, <<>>, <<>>), isAbs, <<>>), <<"/">>)
        dotted == IF body = <<>> /\ ~isAbs THEN <<".">> ELSE body
        slashed == IF dotted # <<>> /\ trailing THEN dotted \o <<"/">> ELSE dotted
    IN  IF isAbs THEN <<"/">> \o slashed ELSE slashed

\* path.join(...parts)
PathJoin(parts) ==
    LET joined == Join(SelectSeq(parts, LAMBDA x : x # <<>>), <<"/">>)
    IN  IF joined = <<>> THEN <<".">> ELSE NormalizePath(joined)

\* a determineFilename without the special case of "production"
determineFilenameNoProduction(envName) ==
    IF envName = <<"local">> THEN <<".", "env", ".", "local">>
    ELSE <<".", "env", ".">> \o envName

determineFilename(envName) ==
    IF envName = <<"local">> THEN <<".", "env", ".", "local">>
    ELSE IF envName = <<"production">> THEN <<".", "env">>
    ELSE <<".", "env", ".">> \o envName

\* a determineFilePath that joins a relative hint without the root directory
determineFilePathNoRoot(c) ==
    LET filename == determineFilename(c.envName)
    IN  IF Truthy(c.envConfig) THEN PathJoin(<<c.envConfig.s, filename>>)
        ELSE IF Truthy(c.app) THEN PathJoin(<<c.app.s, filename>>)
        ELSE PathJoin(<<c.outputDir, c.appName \o <<".">> \o c.envName \o <<".", "env">>>>)

\* c is the PathConfig: [appName, envName, app, envConfig, outputDir, rootDir],
\* app and envConfig given by their `path` property
determineFilePath(c) ==
    LET filename == determineFilename(c.envName)
    IN  IF Truthy(c.envConfig)
            THEN IF Head(c.envConfig.s) = "/"
                     THEN PathJoin(<<c.envConfig.s, filename>>)
                 ELSE PathJoin(<<c.rootDir, c.envConfig.s, filename>>)
        ELSE IF Truthy(c.app)
            THEN IF Head(c.app.s) = "/"
                     THEN PathJoin(<<c.app.s, filename>>)
                 ELSE PathJoin(<<c.rootDir, c.app.s, filename>>)
        ELSE PathJoin(<<c.outputDir, c.appName \o <<".">> \o c.envName \o <<".", "env">>>>)

\* process.cwd(), which path.resolve falls back on
ProcessCwd == <<"/", "cwd">>

\* resolve's right-to-left scan: parts i..1 are put before acc until one is
\* absolute; the working directory comes first when none is
RECURSIVE ResolveFrom(_, _, _)
ResolveFrom(parts, i, acc) ==
    IF i = 0 THEN ProcessCwd \o <<"/">> \o acc
    ELSE IF parts[i] = <<>> THEN ResolveFrom(parts, i - 1, acc)
    ELSE IF Head(parts[i]) = "/" THEN parts[i] \o <<"/">> \o acc
    ELSE ResolveFrom(parts, i - 1, parts[i] \o <<"/">> \o acc)

\* path.resolve(...parts): absolute, normalized, no trailing slash
PathResolve(parts) ==
    <<"/">> \o Join(NormalizeSegments(SplitPath(ResolveFrom(parts, Len(parts), <<>>),
                                                <<>>, <<>>), TRUE, <<>>), <<"/">>)

\* a determineOutputPath that asks the application's hint before the environment's
determineOutputPathAppFirst(o) ==
    LET filename == determineFilename(o.envName)
    IN  IF Truthy(o.app)
            THEN PathJoin(<<IF Head(o.app.s) = "/" THEN o.app.s
                            ELSE PathResolve(<<o.rootDir, o.app.s>>), filename>>)
        ELSE IF Truthy(o.envConfig)
            THEN PathJoin(<<IF Head(o.envConfig.s) = "/" THEN o.envConfig.s
                            ELSE PathResolve(<<o.rootDir, o.envConfig.s>>), filename>>)
        ELSE IF Truthy(o.autoDetectedDir)
            THEN PathJoin(<<o.autoDetectedDir.s, filename>>)
        ELSE PathJoin(<<o.rootDir, o.appName \o <<".">> \o o.envName \o <<".", "env">>>>)

\* o is the PathOptions: [appName, envName, app, envConfig, autoDetectedDir,
\* rootDir], app and envConfig given by their `path` property
determineOutputPath(o) ==
    LET filename == determineFilename(o.envName)
    IN  IF Truthy(o.envConfig)
            THEN PathJoin(<<IF Head(o.envConfig.s) = "/" THEN o.envConfig.s
                            ELSE PathResolve(<<o.rootDir, o.envConfig.s>>), filename>>)
        ELSE IF Truthy(o.app)
            THEN PathJoin(<<IF Head(o.app.s) = "/" THEN o.app.s
                            ELSE PathResolve(<<o.rootDir, o.app.s>>), filename>>)
        ELSE IF Truthy(o.autoDetectedDir)
            THEN PathJoin(<<o.autoDetectedDir.s, filename>>)
        ELSE PathJoin(<<o.rootDir, o.appName \o <<".">> \o o.envName \o <<".", "env">>>>)

----------------------------------------------------------------------------
(* generateEnvFile and generateAllEnvFiles *)

\* config.shared?.variables ?? {}
SharedOf(cfg) ==
    IF cfg.shared = JUndefined THEN JObj(<<>>)
    ELSE IF Get(cfg.shared, <<"variables">>) = JUndefined THEN JObj(<<>>)
    ELSE Get(cfg.shared, <<"variables">>)

AppNotFound(cfg, app) ==
    <<"App ", "'">> \o app \o <<"'", " not found", " in config. Available apps: ">>
        \o Join(Keys(cfg.apps), <<", ">>)

EnvironmentNotFound(appObj, app, env) ==
    <<"Environment ", "'">> \o env \o <<"'", " not found", " for app ", "'">> \o app
        \o <<"'", ". Available environments: ">>
        \o Join(Keys(Get(appObj, <<"environments">>)), <<", ">>)

\* a generateEnvFile that resolves against no shared variables
generateEnvFileNoShared(cfg, app, env) ==
    LET appObj == Get(cfg.apps, app)
    IN  IF ~Truthy(appObj)
            THEN [result |-> Err(AppNotFound(cfg, app)), lines |-> <<>>]
        ELSE IF Get(appObj, <<"environments">>) = JUndefined
            THEN [result |-> Thrown, lines |-> <<>>]
        ELSE LET envObj == Get(Get(appObj, <<"environments">>), env)
             IN  IF ~Truthy(envObj)
                     THEN [result |-> Err(EnvironmentNotFound(appObj, app, env)),
                           lines |-> <<>>]
                 ELSE generateEnvContent(getEnvironmentVariables(envObj), JObj(<<>>))

\* returns [result, lines]; lines is untouched (<<>>) when generateEnvContent
\* is not reached
generateEnvFile(cfg, app, env) ==
    LET appObj == Get(cfg.apps, app)
    IN  IF ~Truthy(appObj)
            THEN [result |-> Err(AppNotFound(cfg, app)), lines |-> <<>>]
        ELSE IF Get(appObj, <<"environments">>) = JUndefined
            \* app.environments[environment] reads a property of undefined
            THEN [result |-> Thrown, lines |-> <<>>]
        ELSE LET envObj == Get(Get(appObj, <<"environments">>), env)
             IN  IF ~Truthy(envObj)
                     THEN [result |-> Err(EnvironmentNotFound(appObj, app, env)),
                           lines |-> <<>>]
                 ELSE generateEnvContent(getEnvironmentVariables(envObj), SharedOf(cfg))

----------------------------------------------------------------------------
(* The calls of one module instance.  VARIABLE_REF_PATTERN is created once, at
   module load, with the g flag: its lastIndex is state that outlives a call.
   li is lastIndex when a call begins; each function gives its result and the
   lastIndex it leaves. *)

\* the end of the first match of the pattern in val at or after index i, 0
\* when there is none
RECURSIVE FirstMatchEnd(_, _)
FirstMatchEnd(val, i) ==
    IF i > Len(val) THEN 0
    ELSE IF MatchEndAt(val, i) # 0 THEN MatchEndAt(val, i)
    ELSE FirstMatchEnd(val, i + 1)

\* a scan that begins where the last one stopped and stops at its first match,
\* as RegExp.prototype.exec and test do with a global pattern
ReplaceScanFromLastIndex(val, li) ==
    LET from == IF li >= Len(val) THEN 1 ELSE li + 1
    IN  [from |-> from, left |-> FirstMatchEnd(val, from)]

\* value.replace(pattern, ...) with a global pattern: RegExp.prototype
\* [Symbol.replace] sets lastIndex to 0 before it looks for the first match,
\* and the search that finds no further match leaves it at 0.  Gives the index
\* the scan begins at and the lastIndex left
ReplaceScan(val, li) == [from |-> 1, left |-> 0]

\* resolveVariable, called when lastIndex is li
resolveVariableFrom(v, sv, li) ==
    LET scan == ReplaceScan(v, li)
        r == ReplaceFrom(v, scan.from, sv,
                         [resolved |-> SubSeq(v, 1, scan.from - 1), hasError |-> NoError])
    IN  [result |-> IF r.hasError.set THEN Err(r.hasError.message) ELSE Ok(r.resolved),
         lastIndex |-> scan.left]

\* the for loop of generateEnvContent from entry i on, lastIndex being li
RECURSIVE ContentLoopFrom(_, _, _, _, _)
ContentLoopFrom(entries, i, shared, ls, li) ==
    IF i > Len(entries) THEN [result |-> Ok(RenderLines(ls)), lastIndex |-> li]
    ELSE LET key == entries[i].k
             ex == extractVariableValue(entries[i].v)
             stringValue == convertValueToString(ex.value)
             resolved == resolveVariableFrom(stringValue, shared, li)
         IN  IF resolved.result.t = "err"
                 THEN [result |-> Err(ResolveFailure(key, resolved.result.message)),
                       lastIndex |-> resolved.lastIndex]
             ELSE ContentLoopFrom(entries, i + 1, shared,
                     ls \o VariableLines(key, ex,
                             FormatValue(resolved.result.value, stringValue, ex.value)),
                     resolved.lastIndex)

\* generateEnvFile, called when lastIndex is li
generateEnvFileFrom(cfg, app, env, li) ==
    LET appObj == Get(cfg.apps, app)
        envObj == Get(Get(appObj, <<"environments">>), env)
    IN  IF ~Truthy(appObj) \/ Get(appObj, <<"environments">>) = JUndefined
               \/ ~Truthy(envObj)
            THEN [result |-> generateEnvFile(cfg, app, env).result, lastIndex |-> li]
        ELSE ContentLoopFrom(ObjectEntries(getEnvironmentVariables(envObj)), 1,
                             SharedOf(cfg), <<>>, li)

\* the (application, environment) pairs in the order the nested loops visit them
RECURSIVE PairsFrom(_, _, _)
PairsFrom(cfg, a, e) ==
    IF a > Len(cfg.apps.o) THEN <<>>
    ELSE LET envs == Get(cfg.apps.o[a].v, <<"environments">>).o
         IN  IF e > Len(envs) THEN PairsFrom(cfg, a + 1, 1)
             ELSE <<[appName |-> cfg.apps.o[a].k, app |-> cfg.apps.o[a].v,
                     envName |-> envs[e].k, env |-> envs[e].v]>>
                      \o PairsFrom(cfg, a, e + 1)

GenerateFailure(app, env, message) ==
    <<"Failed to generate env for ">> \o app \o <<".">> \o env \o <<": ">> \o message

\* the nested loops of generateAllEnvFiles from pair i on; fs is `files` so far
RECURSIVE AllLoop(_, _, _, _, _, _)
AllLoop(cfg, pairs, i, fs, outDir, root) ==
    IF i > Len(pairs) THEN OkFiles(fs)
    ELSE LET p == pairs[i]
             contentResult == generateEnvContent(getEnvironmentVariables(p.env),
                                                 SharedOf(cfg)).result
         IN  IF contentResult.t = "err"
                 THEN Err(GenerateFailure(p.appName, p.envName, contentResult.message))
             ELSE LET filePath == determineFilePath(
                          [appName |-> p.appName, envName |-> p.envName,
                           app |-> Get(p.app, <<"path">>),
                           envConfig |-> getEnvironmentConfig(p.env),
                           outputDir |-> outDir, rootDir |-> root])
                  IN  AllLoop(cfg, pairs, i + 1,
                          Append(fs, [path |-> filePath, content |-> contentResult.value]),
                          outDir, root)

\* generateAllEnvFiles visiting the pairs last to first
generateAllEnvFilesLastFirst(cfg, outDir, root) ==
    LET pairs == PairsFrom(cfg, 1, 1)
    IN  AllLoop(cfg, [k \in 1..Len(pairs) |-> pairs[Len(pairs) + 1 - k]], 1, <<>>,
                outDir, root)

\* generateAllEnvFiles going on after a failure and reporting the last one
generateAllEnvFilesLastFailure(cfg, outDir, root) ==
    LET pairs == PairsFrom(cfg, 1, 1)
        content(k) == generateEnvContent(getEnvironmentVariables(pairs[k].env),
                                         SharedOf(cfg)).result
        failing == {k \in 1..Len(pairs) : content(k).t = "err"}
    IN  IF failing = {} THEN AllLoop(cfg, pairs, 1, <<>>, outDir, root)
        ELSE LET k == CHOOSE a \in failing : \A b \in failing : b <= a
             IN  Err(GenerateFailure(pairs[k].appName, pairs[k].envName, content(k).message))

generateAllEnvFiles(cfg, outDir, root) ==
    AllLoop(cfg, PairsFrom(cfg, 1, 1), 1, <<>>, outDir, root)

----------------------------------------------------------------------------
(* The schema of src/src/types.ts, as zod evaluates it.  A schema applied to  *)
(* a value at a path gives [status, issues, data]: "valid", "dirty" (issues,  *)
(* but a value: a failed check, a failed refinement, an unrecognized key) or   *)
(* "aborted" (a value of the wrong type).  An issue is [message, path].  The   *)
(* text of zod's own messages is one symbol each.                              *)

Issue(message, path) == [message |-> message, path |-> path]

Valid(data) == [status |-> "valid", issues |-> <<>>, data |-> data]

Parsed(issues, aborted, data) ==
    [status |-> IF aborted THEN "aborted" ELSE IF issues = <<>> THEN "valid" ELSE "dirty",
     issues |-> issues, data |-> data]

\* zod's messages for a missing value, a value of the wrong type, a value no
\* member of a union takes, and keys a strict object does not know
RequiredMessage == <<"Required">>
InvalidTypeMessage == <<"Invalid type">>
InvalidUnionMessage == <<"Invalid input">>
UnrecognizedKeysMessage == <<"Unrecognized key(s) in object">>

WrongType(x, path) ==
    Parsed(<<Issue(IF x = JUndefined THEN RequiredMessage ELSE InvalidTypeMessage, path)>>,
           TRUE, JUndefined)

\* the sequence f as a tuple, every element of it computed
Tuple(f) == f \o <<>>

RECURSIVE Concat(_)
Concat(xss) == IF xss = <<>> THEN <<>> ELSE Head(xss) \o Concat(Tail(xss))

\* z.string()
ZodString(x, path) == IF x.t = "string" THEN Valid(x) ELSE WrongType(x, path)

\* z.string().optional()
ZodOptionalString(x, path) == IF x = JUndefined THEN Valid(x) ELSE ZodString(x, path)

\* z.string().min(1, message) on a key of a record
ZodKey(k, path, message) == IF Len(k) >= 1 THEN <<>> ELSE <<Issue(message, path)>>

\* the own entry of a schema key when the value has it
Kept(k, x, data) == IF Get(x, k) = JUndefined THEN <<>> ELSE <<Entry(k, data)>>

\* a record schema on the object x, its entries parsed to rs: keyIssues[i]
\* are the issues of the i-th key, refinement the issues of the refinement,
\* which runs when no entry aborted
RecordOf(x, rs, keyIssues, refinement) ==
    LET aborted == \E i \in 1..Len(rs) : rs[i].status = "aborted"
    IN  Parsed(Concat([i \in 1..Len(rs) |-> keyIssues[i] \o rs[i].issues])
                   \o (IF aborted THEN <<>> ELSE refinement),
               aborted,
               JObj(Tuple([i \in 1..Len(rs) |-> Entry(x.o[i].k, rs[i].data)])))

\* an object schema on the object x, the values of its keys parsed to rs; a key
\* that is not required[i] is left out of the data when x does not have it
ObjectOf(x, keys, rs, required) ==
    Parsed(Concat([i \in 1..Len(rs) |-> rs[i].issues]),
           \E i \in 1..Len(rs) : rs[i].status = "aborted",
           JObj(Concat([i \in 1..Len(rs) |->
                           IF required[i] THEN <<Entry(keys[i], rs[i].data)>>
                           ELSE Kept(keys[i], x, rs[i].data)])))

\* a union whose members parsed to rs: the first that is valid, else the first
\* that has a value, else the union's own issue
UnionOf(rs, path) ==
    LET valid == {i \in 1..Len(rs) : rs[i].status = "valid"}
        dirty == {i \in 1..Len(rs) : rs[i].status = "dirty"}
        first(S) == CHOOSE i \in S : \A j \in S : i <= j
    IN  IF valid # {} THEN rs[first(valid)]
        ELSE IF dirty # {} THEN rs[first(dirty)]
        ELSE Parsed(<<Issue(InvalidUnionMessage, path)>>, TRUE, JUndefined)

NoKeyIssues(x) == [i \in 1..Len(x.o) |-> <<>>]

\* z.record(z.string(), z.string())
StringRecord(x, path) ==
    IF x.t # "object" THEN WrongType(x, path)
    ELSE RecordOf(x, Tuple([i \in 1..Len(x.o) |->
                               ZodString(x.o[i].v, Append(path, x.o[i].k))]),
                  NoKeyIssues(x), <<>>)

SharedVariablesSchema(x, path) ==
    IF x = JUndefined THEN Valid(x)
    ELSE IF x.t # "object" THEN WrongType(x, path)
    ELSE ObjectOf(x, <<<<"variables">>>>,
                  <<IF Get(x, <<"variables">>) = JUndefined THEN Valid(JUndefined)
                    ELSE StringRecord(Get(x, <<"variables">>),
                                      Append(path, <<"variables">>))>>,
                  <<FALSE>>)

\* the object member of VariableValueSchema
AnnotatedSchema(x, path) ==
    IF x.t # "object" THEN WrongType(x, path)
    ELSE ObjectOf(x, <<<<"value">>, <<"comment">>, <<"type">>>>,
                  <<ZodString(Get(x, <<"value">>), Append(path, <<"value">>)),
                    ZodOptionalString(Get(x, <<"comment">>), Append(path, <<"comment">>)),
                    ZodOptionalString(Get(x, <<"type">>), Append(path, <<"type">>))>>,
                  <<TRUE, FALSE, FALSE>>)

\* z.union([z.string(), z.object({ value, comment, type })])
VariableValueSchema(x, path) ==
    UnionOf(<<ZodString(x, path), AnnotatedSchema(x, path)>>, path)

\* z.record(z.string().min(1, ...), VariableValueSchema)
VariablesSchema(x, path) ==
    IF x.t # "object" THEN WrongType(x, path)
    ELSE RecordOf(x, Tuple([i \in 1..Len(x.o) |->
                               VariableValueSchema(x.o[i].v, Append(path, x.o[i].k))]),
                  [i \in 1..Len(x.o) |->
                      ZodKey(x.o[i].k, Append(path, x.o[i].k),
                             <<"Variable name cannot be empty">>)],
                  <<>>)

\* the object member of AppEnvironmentValueSchema
ExtendedSchema(x, path) ==
    IF x.t # "object" THEN WrongType(x, path)
    ELSE ObjectOf(x, <<<<"variables">>, <<"path">>>>,
                  <<VariablesSchema(Get(x, <<"variables">>), Append(path, <<"variables">>)),
                    ZodOptionalString(Get(x, <<"path">>), Append(path, <<"path">>))>>,
                  <<TRUE, FALSE>>)

\* z.union([z.record(z.string(), z.string()), z.object({ variables, path })])
AppEnvironmentValueSchema(x, path) ==
    UnionOf(<<StringRecord(x, path), ExtendedSchema(x, path)>>, path)

\* z.record(z.string().min(1, ...), AppEnvironmentValueSchema).refine(...)
AppEnvironmentSchema(x, path) ==
    IF x.t # "object" THEN WrongType(x, path)
    ELSE RecordOf(x, Tuple([i \in 1..Len(x.o) |->
                               AppEnvironmentValueSchema(x.o[i].v, Append(path, x.o[i].k))]),
                  [i \in 1..Len(x.o) |->
                      ZodKey(x.o[i].k, Append(path, x.o[i].k),
                             <<"Environment name cannot be empty">>)],
                  IF Len(x.o) > 0 THEN <<>>
                  ELSE <<Issue(<<"At least one environment must be defined">>, path)>>)

AppSchema(x, path) ==
    IF x.t # "object" THEN WrongType(x, path)
    ELSE ObjectOf(x, <<<<"path">>, <<"environments">>>>,
                  <<ZodOptionalString(Get(x, <<"path">>), Append(path, <<"path">>)),
                    AppEnvironmentSchema(Get(x, <<"environments">>),
                                         Append(path, <<"environments">>))>>,
                  <<FALSE, TRUE>>)

\* z.record(z.string().min(1, ...), AppSchema).refine(...)
AppsSchema(x, path) ==
    IF x.t # "object" THEN WrongType(x, path)
    ELSE RecordOf(x, Tuple([i \in 1..Len(x.o) |->
                               AppSchema(x.o[i].v, Append(path, x.o[i].k))]),
                  [i \in 1..Len(x.o) |->
                      ZodKey(x.o[i].k, Append(path, x.o[i].k), <<"App name cannot be empty">>)],
                  IF Len(x.o) > 0 THEN <<>>
                  ELSE <<Issue(<<"At least one app must be defined">>, path)>>)

\* the object { shared, apps } whose keys parsed to sh and ap; strict are the
\* issues of .strict(); the refinement runs when neither key aborted; data is
\* the configuration [shared, apps]
ConfigOf(sh, ap, strict) ==
    LET aborted == sh.status = "aborted" \/ ap.status = "aborted"
        refined ==
            IF ~aborted /\ ~(\A i \in 1..Len(ap.data.o) :
                                 Len(Get(ap.data.o[i].v, <<"environments">>).o) > 0)
                THEN <<Issue(<<"Each app must have at least one environment defined">>,
                             <<>>)>>
            ELSE <<>>
    IN  Parsed(sh.issues \o ap.issues \o strict \o refined, aborted,
               [shared |-> sh.data, apps |-> ap.data])

\* an EnvConfigSchema that is not strict: unknown top-level keys pass
EnvConfigSchemaLoose(x) ==
    IF x.t # "object" THEN WrongType(x, <<>>)
    ELSE ConfigOf(SharedVariablesSchema(Get(x, <<"shared">>), <<<<"shared">>>>),
                  AppsSchema(Get(x, <<"apps">>), <<<<"apps">>>>), <<>>)

\* z.object({ shared, apps }).strict().refine(...)
EnvConfigSchema(x) ==
    IF x.t # "object" THEN WrongType(x, <<>>)
    ELSE ConfigOf(SharedVariablesSchema(Get(x, <<"shared">>), <<<<"shared">>>>),
                  AppsSchema(Get(x, <<"apps">>), <<<<"apps">>>>),
                  IF \E i \in 1..Len(x.o) : x.o[i].k \notin {<<"shared">>, <<"apps">>}
                      THEN <<Issue(UnrecognizedKeysMessage, <<>>)>>
                  ELSE <<>>)

----------------------------------------------------------------------------
(* The parser: formatZodError and parseConfig *)

\* `${message}${path}` of one issue
IssueText(issue) ==
    issue.message \o (IF Len(issue.path) > 0
                          THEN <<" at \"">> \o Join(issue.path, <<".">>) \o <<"\"">>
                      ELSE <<>>)

\* a formatZodError that reports the first issue only
formatZodErrorFirstOnly(issues) ==
    IF Len(issues) = 0 THEN <<"Validation error: Invalid configuration">>
    ELSE <<"Validation error: ">> \o IssueText(issues[1])

formatZodError(issues) ==
    IF Len(issues) = 0 THEN <<"Validation error: Invalid configuration">>
    ELSE LET messages == [i \in 1..Len(issues) |-> IssueText(issues[i])]
         IN  IF Len(messages) = 1 THEN <<"Validation error: ">> \o messages[1]
             ELSE <<"Validation errors:", "\n">>
                      \o Join([i \in 1..Len(messages) |-> <<"  - ">> \o messages[i]], <<"\n">>)

\* what parseYaml gives for a text that is no YAML: it throws
YamlThrows == [t |-> "throw", s |-> <<"YAML syntax error">>, n |-> 0, b |-> FALSE, o |-> <<>>]

\* parseConfig on the text whose parse is doc: [result, config]
parseConfig(doc) ==
    IF doc.t = "throw"
        THEN [result |-> Err(<<"YAML parsing error: ">> \o doc.s), config |-> JUndefined]
    ELSE IF ~Truthy(doc)
        THEN [result |-> Err(<<"YAML file is empty or invalid">>), config |-> JUndefined]
    ELSE LET validated == EnvConfigSchema(doc)
         IN  IF validated.status # "valid"
                 THEN [result |-> Err(formatZodError(validated.issues)), config |-> JUndefined]
             ELSE [result |-> Ok(<<>>), config |-> validated.data]

----------------------------------------------------------------------------
(* The command line: cli.ts.  The file system is the record `disk`:
   exists is the set of paths that exist, text is what the configuration file
   parses to, writable tells whether mkdir and writeFile succeed.  A handler
   gives [code, calls, written]: how the run ended, the mkdir and writeFile
   calls that succeeded, in order, and the writeFile calls among them. *)

\* the template that --init writes, imported from constants/config.constant
DEFAULT_CONFIG == <<"DEFAULT_CONFIG">>

\* the default of the --config option
DefaultConfigPath == <<"genv.config.yaml">>

\* runCLI returns the status n
Returned(n) == <<"returned", n>>

\* the promise of runCLI is rejected, an exception having left the handler:
\* index.ts then ends the process with status 1
Rejected == <<"rejected", 1>>

MkdirCall(dir) == [op |-> "mkdir", path |-> dir, content |-> <<>>]
WriteCall(path, content) == [op |-> "writeFile", path |-> path, content |-> content]

\* the writeFile calls among cs
WritesOf(cs) ==
    LET isWrite(c) == c.op = "writeFile"
        ws == SelectSeq(cs, isWrite)
    IN  [k \in 1..Len(ws) |-> [path |-> ws[k].path, content |-> ws[k].content]]

Outcome(code, cs) == [code |-> code, calls |-> cs, written |-> WritesOf(cs)]

\* dirname of node:path (posix): the path up to the last separator that ends a
\* segment, "." when there is none, "/" for an entry of the root
RECURSIVE DirnameEnd(_, _, _)
DirnameEnd(path, i, matchedSlash) ==
    IF i < 2 THEN -1
    ELSE IF path[i] = "/"
        THEN IF ~matchedSlash THEN i - 1 ELSE DirnameEnd(path, i - 1, matchedSlash)
    ELSE DirnameEnd(path, i - 1, FALSE)

dirname(path) ==
    IF path = <<>> THEN <<".">>
    ELSE LET hasRoot == path[1] = "/"
             end == DirnameEnd(path, Len(path), TRUE)
         IN  IF end = -1 THEN IF hasRoot THEN <<"/">> ELSE <<".">>
             ELSE IF hasRoot /\ end = 1 THEN <<"/", "/">>
             ELSE SubSeq(path, 1, end)

\* mkdir(dirname(path), { recursive: true }) and then writeFile(path, content)
MkdirAndWrite(path, content) == <<MkdirCall(dirname(path)), WriteCall(path, content)>>

pathExists(d, path) == path \in d.exists

\* the first of paths[i..] that exists, null when none does
RECURSIVE FirstExisting(_, _, _)
FirstExisting(d, paths, i) ==
    IF i > Len(paths) THEN JNull
    ELSE IF pathExists(d, paths[i]) THEN JStr(paths[i])
    ELSE FirstExisting(d, paths, i + 1)

\* a findAppDirectory that looks under apps before it looks under packages
findAppDirectoryAppsFirst(d, app, root) ==
    FirstExisting(d, <<PathJoin(<<root, <<"apps">>, app>>),
                       PathJoin(<<root, <<"packages">>, app>>),
                       PathJoin(<<root, app>>)>>, 1)

findAppDirectory(d, app, root) ==
    LET standard == FirstExisting(d, <<PathJoin(<<root, <<"packages">>, app>>),
                                       PathJoin(<<root, <<"apps">>, app>>),
                                       PathJoin(<<root, app>>)>>, 1)
        parts == SplitPath(app, <<>>, <<>>)
    IN  IF standard # JNull THEN standard
        ELSE IF app # <<>> /\ Head(app) = "@" /\ Len(parts) >= 2
                  /\ parts[1] # <<>> /\ parts[2] # <<>>
            THEN FirstExisting(d, <<PathJoin(<<root, <<"packages">>, parts[1], parts[2]>>),
                                    PathJoin(<<root, <<"apps">>, parts[1], parts[2]>>),
                                    PathJoin(<<root, parts[1], parts[2]>>)>>, 1)
        ELSE JNull

\* the paths of paths[i..] that a loop of pathExists calls looks at: those up
\* to the first that exists
RECURSIVE Probed(_, _, _)
Probed(d, paths, i) ==
    IF i > Len(paths) THEN <<>>
    ELSE IF pathExists(d, paths[i]) THEN <<paths[i]>>
    ELSE <<paths[i]>> \o Probed(d, paths, i + 1)

\* the paths findAppDirectory hands to pathExists, in order
findAppDirectoryProbes(d, app, root) ==
    LET possiblePaths == <<PathJoin(<<root, <<"packages">>, app>>),
                           PathJoin(<<root, <<"apps">>, app>>),
                           PathJoin(<<root, app>>)>>
        parts == SplitPath(app, <<>>, <<>>)
    IN  IF FirstExisting(d, possiblePaths, 1) # JNull THEN Probed(d, possiblePaths, 1)
        ELSE IF app # <<>> /\ Head(app) = "@" /\ Len(parts) >= 2
                  /\ parts[1] # <<>> /\ parts[2] # <<>>
            THEN possiblePaths
                   \o Probed(d, <<PathJoin(<<root, <<"packages">>, parts[1], parts[2]>>),
                                  PathJoin(<<root, <<"apps">>, parts[1], parts[2]>>),
                                  PathJoin(<<root, parts[1], parts[2]>>)>>, 1)
        ELSE possiblePaths

isEnvFieldExtend(env) == In(<<"variables">>, env) /\ env.t = "object"

\* cli.ts's getEnvironmentConfig: the `path` of { path?: string }
cliGetEnvironmentConfig(env) ==
    IF isEnvFieldExtend(env) THEN Get(env, <<"path">>) ELSE JUndefined

\* a handleInit that does not look whether the path exists
handleInitOverwriting(d, configPath) ==
    IF d.writable
        THEN Outcome(Returned(0), <<WriteCall(configPath, DEFAULT_CONFIG)>>)
    ELSE Outcome(Returned(1), <<>>)

handleInit(d, configPath) ==
    IF pathExists(d, configPath) THEN Outcome(Returned(1), <<>>)
    ELSE IF d.writable
        THEN Outcome(Returned(0), <<WriteCall(configPath, DEFAULT_CONFIG)>>)
    ELSE Outcome(Returned(1), <<>>)

\* where handleApply puts the file of pair p
ApplyPath(d, p, root) ==
    determineOutputPath([appName |-> p.appName, envName |-> p.envName,
                         app |-> Get(p.app, <<"path">>),
                         envConfig |-> cliGetEnvironmentConfig(p.env),
                         autoDetectedDir |-> findAppDirectory(d, p.appName, root),
                         outputDir |-> <<>>, rootDir |-> root])

\* the nested loops of handleApply from pair i on; ws is the calls so far
RECURSIVE ApplyLoop(_, _, _, _, _, _)
ApplyLoop(d, cfg, root, pairs, i, ws) ==
    IF i > Len(pairs) THEN Outcome(Returned(0), ws)
    ELSE LET p == pairs[i]
             generateResult == generateEnvFile(cfg, p.appName, p.envName).result
         IN  IF ~Truthy(p.app) \/ ~Truthy(p.env)
                 THEN ApplyLoop(d, cfg, root, pairs, i + 1, ws)
             ELSE IF generateResult.t = "throw" THEN Outcome(Rejected, ws)
             ELSE IF generateResult.t = "err"
                 THEN ApplyLoop(d, cfg, root, pairs, i + 1, ws)
             ELSE IF ~d.writable THEN Outcome(Rejected, ws)
             ELSE ApplyLoop(d, cfg, root, pairs, i + 1,
                      ws \o MkdirAndWrite(ApplyPath(d, p, root), generateResult.value))

\* a handleApply that gives up, with status 1, at the first pair that fails
handleApplyFailFast(d, cfg, root) ==
    LET pairs == PairsFrom(cfg, 1, 1)
        failing == {k \in 1..Len(pairs) :
                       generateEnvFile(cfg, pairs[k].appName, pairs[k].envName).result.t
                           = "err"}
    IN  IF failing = {} THEN ApplyLoop(d, cfg, root, pairs, 1, <<>>)
        ELSE LET k == CHOOSE a \in failing : \A b \in failing : a <= b
                 before == ApplyLoop(d, cfg, root, SubSeq(pairs, 1, k - 1), 1, <<>>)
             IN  IF before.code = Rejected THEN before
                 ELSE Outcome(Returned(1), before.calls)

handleApply(d, cfg, root) ==
    ApplyLoop(d, cfg, root, PairsFrom(cfg, 1, 1), 1, <<>>)

\* a handleAll that writes the file of each pair that generates before it
\* reports the pair that does not
handleAllEager(d, cfg) ==
    LET pairs == PairsFrom(cfg, 1, 1)
    IN  IF d.writable
            THEN [ApplyLoop(d, cfg, ProcessCwd, pairs, 1, <<>>) EXCEPT
                     !.code = IF generateAllEnvFiles(cfg, <<".">>, ProcessCwd).t = "err"
                                  THEN Returned(1) ELSE Returned(0)]
        ELSE Outcome(Rejected, <<>>)

\* the loop of handleAll over the files from the i-th on
RECURSIVE WriteAll(_, _)
WriteAll(files, i) ==
    IF i > Len(files) THEN <<>>
    ELSE MkdirAndWrite(files[i].path, files[i].content) \o WriteAll(files, i + 1)

handleAll(d, cfg) ==
    LET generateResult == generateAllEnvFiles(cfg, <<".">>, ProcessCwd)
    IN  IF generateResult.t = "err" THEN Outcome(Returned(1), <<>>)
        ELSE IF generateResult.files # <<>> /\ ~d.writable THEN Outcome(Rejected, <<>>)
        ELSE Outcome(Returned(0), WriteAll(generateResult.files, 1))

\* a handleSingle that creates the directory and the file before it looks at
\* the result of the generation
handleSingleWriteFirst(d, cfg, app, env) ==
    LET generateResult == generateEnvFile(cfg, app, env).result
        outputPath == PathJoin(<<ProcessCwd, app \o <<".">> \o env \o <<".", "env">>>>)
    IN  IF generateResult.t = "throw" \/ ~d.writable THEN Outcome(Rejected, <<>>)
        ELSE Outcome(IF generateResult.t = "err" THEN Returned(1) ELSE Returned(0),
                     MkdirAndWrite(outputPath, generateResult.value))

handleSingle(d, cfg, app, env) ==
    LET appObj == Get(cfg.apps, app)
        missing == appObj.t \in {"undefined", "null"}
        environments == Get(appObj, <<"environments">>)
        envObj == Get(environments, env)
        outputPath == determineOutputPath(
            [appName |-> app, envName |-> env,
             app |-> IF missing THEN JUndefined ELSE Get(appObj, <<"path">>),
             envConfig |-> IF ~missing /\ Truthy(envObj)
                               THEN cliGetEnvironmentConfig(envObj) ELSE JUndefined,
             autoDetectedDir |-> JNull, outputDir |-> <<>>, rootDir |-> ProcessCwd])
        generateResult == generateEnvFile(cfg, app, env).result
    IN  \* config.getEnvironment reads a property of app.environments
        IF ~missing /\ environments = JUndefined THEN Outcome(Rejected, <<>>)
        ELSE IF generateResult.t = "throw" THEN Outcome(Rejected, <<>>)
        ELSE IF generateResult.t = "err" THEN Outcome(Returned(1), <<>>)
        ELSE IF ~d.writable THEN Outcome(Rejected, <<>>)
        ELSE Outcome(Returned(0), MkdirAndWrite(outputPath, generateResult.value))

\* a runCLI that looks at --all before --apply
runCLIAllFirst(d, a) ==
    LET hasAction == a.apply \/ a.all \/ (Truthy(a.app) /\ Truthy(a.env))
        out(parsed, o) == [code |-> o.code, written |-> o.written, calls |-> o.calls,
                           read |-> IF parsed.result = NoResult THEN JUndefined ELSE d.text,
                           parsed |-> parsed]
        unparsed == [result |-> NoResult, config |-> JUndefined]
        loaded(parsed) ==
            IF parsed.result.t = "err" THEN out(parsed, Outcome(Returned(1), <<>>))
            ELSE IF a.all THEN out(parsed, handleAll(d, parsed.config))
            ELSE IF a.apply THEN out(parsed, handleApply(d, parsed.config, ProcessCwd))
            ELSE out(parsed, handleSingle(d, parsed.config, a.app.s, a.env.s))
    IN  IF a.init THEN out(unparsed, handleInit(d, a.config))
        ELSE IF ~hasAction \/ ~pathExists(d, a.config)
            THEN out(unparsed, Outcome(Returned(1), <<>>))
        ELSE CHOOSE r \in {loaded(parsed) : parsed \in {parseConfig(d.text)}} : TRUE

\* a is the parsed command line [init, apply, all, app, env, config], the
\* default of --config filled in.  Gives [code, written, calls, read, parsed]: read
\* is the document the configuration file gave (undefined when it was not
\* read), parsed is what parseConfig made of it
runCLI(d, a) ==
    LET hasAction == a.apply \/ a.all \/ (Truthy(a.app) /\ Truthy(a.env))
        unread(o) == [code |-> o.code, written |-> o.written, calls |-> o.calls,
                      read |-> JUndefined,
                      parsed |-> [result |-> NoResult, config |-> JUndefined]]
        handled(parsed, o) == [code |-> o.code, written |-> o.written,
                               calls |-> o.calls, read |-> d.text,
                               parsed |-> parsed]
        \* from parseConfig on
        loaded(parsed) ==
            IF parsed.result.t = "err" THEN handled(parsed, Outcome(Returned(1), <<>>))
            ELSE IF a.apply
                THEN handled(parsed, handleApply(d, parsed.config, ProcessCwd))
            ELSE IF a.all THEN handled(parsed, handleAll(d, parsed.config))
            ELSE handled(parsed, handleSingle(d, parsed.config, a.app.s, a.env.s))
    IN  IF a.init THEN unread(handleInit(d, a.config))
        ELSE IF ~hasAction THEN unread(Outcome(Returned(1), <<>>))
        \* readFile fails and the process exits with status 1
        ELSE IF ~pathExists(d, a.config) THEN unread(Outcome(Returned(1), <<>>))
        ELSE CHOOSE r \in {loaded(parsed) : parsed \in {parseConfig(d.text)}} : TRUE

----------------------------------------------------------------------------
(* The inputs the model draws from. *)

NameA == <<"A">>
NameB == <<"B">>
NameC == <<"C">>
NameM == <<"M">>
NameN == <<"N">>
NameConstructor == <<"constructor">>

\* the text ${shared:NAME}
Ph(name) == PatternPrefix \o name \o <<"}">>

\* what a resolveVariable argument is assembled from: plain text, a stray "}",
\* an unterminated "${shared:", and whole placeholders
Pieces ==
    {<<"x">>, <<"}">>, PatternPrefix, Ph(NameA), Ph(NameB), Ph(NameC)}

RECURSIVE PieceStrings(_)
PieceStrings(n) ==
    IF n = 0 THEN {<<>>}
    ELSE PieceStrings(n - 1) \cup {v \o p : v \in PieceStrings(n - 1), p \in Pieces}

\* shared-variable mappings: A a string (plain, empty, or itself a placeholder
\* text), B a number, C a boolean, each present or absent
SharedMaps ==
    {JObj(a \o b \o c) :
        a \in {<<>>, <<Entry(NameA, JStr(<<"v">>))>>, <<Entry(NameA, JStr(<<>>))>>,
               <<Entry(NameA, JStr(Ph(NameB)))>>},
        b \in {<<>>, <<Entry(NameB, JNum(8080))>>},
        c \in {<<>>, <<Entry(NameC, JBool(FALSE))>>}}

EmptyConfig == [shared |-> JUndefined, apps |-> JObj(<<>>)]

----------------------------------------------------------------------------
(* resolveVariable on its own: the specification SpecResolve *)

InitResolve ==
    /\ pc = "idle"
    /\ config = EmptyConfig
    /\ value \in PieceStrings(MaxPieces)
    /\ sharedVars \in SharedMaps
    /\ appName = <<>>
    /\ environment = <<>>
    /\ outputDir = <<>>
    /\ rootDir = <<>>
    /\ lines = <<>>
    /\ result = NoResult
    /\ options = NoOptions
    /\ document = JUndefined
    /\ args = NoArgs
    /\ disk = <<>>
    /\ written = <<>>
    /\ calls = <<>>
    /\ exitCode = NoExit
    /\ lastIndex = 0
    /\ history = <<>>

ResolveVariable ==
    /\ pc = "idle"
    /\ pc' = "resolveVariable"
    /\ result' = resolveVariable(value, sharedVars)
    /\ UNCHANGED <<config, value, sharedVars, appName, environment, outputDir,
                   rootDir, lines>>
    /\ UNCHANGED <<options, cliVars, moduleVars>>

NextResolve == ResolveVariable

SpecResolve == InitResolve /\ [][NextResolve]_vars

----------------------------------------------------------------------------
(* Configurations for the generator: the specification Spec *)

\* { value, comment } as the configuration writes an annotated variable
Annotated(v, comment) == JObj(<<Entry(<<"value">>, v), Entry(<<"comment">>, JStr(comment))>>)

\* the variable values an environment under study is built from; M and N are
\* never shared variables
VariableChoices ==
    {JStr(<<"x">>),
     JStr(<<"x">> \o Ph(NameA) \o Ph(NameB)),
     JStr(Ph(NameM)),
     JStr(Ph(NameN) \o Ph(NameM)),
     JNum(3000),
     JBool(TRUE),
     Annotated(JStr(Ph(NameA)), <<"c">>),
     Annotated(JNum(0), <<>>)}

RECURSIVE ChoiceSeqs(_)
ChoiceSeqs(n) ==
    IF n = 0 THEN {<<>>}
    ELSE ChoiceSeqs(n - 1)
           \cup {Append(vs, v) : vs \in {q \in ChoiceSeqs(n - 1) : Len(q) = n - 1},
                                 v \in VariableChoices}

\* variable names by position
KeyAt(i) ==
    CASE i = 1 -> <<"PORT">>
      [] i = 2 -> <<"API_URL">>
      [] i = 3 -> <<"DEBUG">>
      [] OTHER -> <<"VAR">> \o Digits(i)

\* the variables object holding the values vs
VariablesOf(vs) == JObj([i \in 1..Len(vs) |-> Entry(KeyAt(i), vs[i])])

ExtendedEnv(variables) == JObj(<<Entry(<<"variables">>, variables)>>)

ExtendedEnvAt(variables, path) ==
    JObj(<<Entry(<<"variables">>, variables), Entry(<<"path">>, JStr(path))>>)

\* the environments under study: extended form, and legacy form (the flat map
\* itself) when every value is a bare scalar
StudyEnvs ==
    LET objs == {VariablesOf(vs) : vs \in ChoiceSeqs(MaxVars)}
    IN  {ExtendedEnv(o) : o \in objs}
          \cup {o \in objs : \A k \in 1..Len(o.o) : IsScalar(o.o[k].v)}

AppOf(envs) == JObj(<<Entry(<<"environments">>, JObj(envs))>>)

AppAt(path, envs) ==
    JObj(<<Entry(<<"path">>, JStr(path)), Entry(<<"environments">>, JObj(envs))>>)

SharedSection(entries) == JObj(<<Entry(<<"variables">>, JObj(entries))>>)

SharedSections ==
    {JUndefined,
     SharedSection(<<Entry(NameA, JStr(<<"v">>)), Entry(NameB, JNum(8080))>>),
     SharedSection(<<Entry(NameA, JStr(Ph(NameA)))>>)}

\* one application, one environment: the environment under study
StudyConfigs ==
    {[shared |-> sh,
      apps |-> JObj(<<Entry(<<"web">>, AppOf(<<Entry(<<"local">>, env)>>))>>)] :
        sh \in SharedSections, env \in StudyEnvs}

\* application and environment names by position
AppNameAt(i) ==
    CASE i = 1 -> <<"web">>
      [] i = 2 -> <<"api">>
      [] i = 3 -> <<"job">>
      [] OTHER -> <<"app">> \o Digits(i)

EnvNameAt(j) ==
    CASE j = 1 -> <<"production">>
      [] j = 2 -> <<"local">>
      [] j = 3 -> <<"staging">>
      [] OTHER -> <<"env">> \o Digits(j)

\* the path hints of application i: none for the first application, then an
\* application-level hint and, on its extended-form environments, an
\* environment-level one
HasHints(i) == i % 2 = 0

\* the environment of application i at position j of a multi-application
\* configuration: its one variable ID tells the pair; `fails` adds a variable
\* that references the missing shared name M<i><j>; legacy and extended forms
\* alternate
SlotEnv(i, j, fails) ==
    LET id == Entry(<<"ID">>, JStr(Digits(i) \o <<".">> \o Digits(j)))
        bad == Entry(<<"BAD">>, JStr(Ph(NameM \o Digits(i) \o Digits(j))))
        variables == JObj(IF fails THEN <<id, bad>> ELSE <<id>>)
    IN  IF (i + j) % 2 = 1 THEN variables
        ELSE IF HasHints(i)
            THEN ExtendedEnvAt(variables, <<"/", "abs", "/">> \o EnvNameAt(j))
        ELSE ExtendedEnv(variables)

\* the applications at position i: one or more environments, each failing or not
SlotApps(i) ==
    {LET envs == [j \in 1..Len(fs) |-> Entry(EnvNameAt(j), SlotEnv(i, j, fs[j]))]
     IN  IF HasHints(i) THEN AppAt(<<"apps", "/">> \o AppNameAt(i), envs)
         ELSE AppOf(envs) :
        fs \in UNION {[1..m -> BOOLEAN] : m \in 1..MaxEnvs}}

RECURSIVE AppLists(_)
AppLists(n) ==
    IF n = 0 THEN {<<>>}
    ELSE {Append(as, Entry(AppNameAt(n), a)) : as \in AppLists(n - 1), a \in SlotApps(n)}

MultiConfigs ==
    {[shared |-> SharedSection(<<Entry(NameA, JStr(<<"v">>))>>), apps |-> JObj(as)] :
        as \in UNION {AppLists(n) : n \in 1..MaxApps}}

\* a legacy-form environment one variable of which is named `path`, alone or
\* beside an extended-form environment, in an application with or without a
\* path hint
LegacyPathEnv ==
    JObj(<<Entry(<<"path">>, JStr(<<"cfg">>)), Entry(<<"ID">>, JStr(<<"1">>))>>)

LegacyPathConfigs ==
    {[shared |-> JUndefined, apps |-> JObj(<<Entry(AppNameAt(1), app)>>)] :
        app \in {AppOf(envs) : envs \in
                    {<<Entry(EnvNameAt(2), LegacyPathEnv)>>,
                     <<Entry(EnvNameAt(1), ExtendedEnv(JObj(<<Entry(<<"ID">>, JStr(<<"0">>))>>))),
                       Entry(EnvNameAt(2), LegacyPathEnv)>>}}
              \cup {AppAt(<<"apps", "/">> \o AppNameAt(1),
                          <<Entry(EnvNameAt(2), LegacyPathEnv)>>)}}

\* two applications that name the same directory and declare an environment
\* of the same name; two whose flat file names read the same
SharedDirectoryConfigs ==
    LET env(id) == JObj(<<Entry(<<"ID">>, JStr(id))>>)
        envs(id) == <<Entry(EnvNameAt(1), env(id))>>
        dir == <<"apps", "/">> \o AppNameAt(1)
    IN  {[shared |-> JUndefined,
          apps |-> JObj(<<Entry(AppNameAt(1), AppAt(dir, envs(<<"1">>))),
                          Entry(AppNameAt(2), AppAt(dir, envs(<<"2">>)))>>)],
         [shared |-> JUndefined,
          apps |-> JObj(<<Entry(AppNameAt(1) \o <<".", "eu">>,
                                AppOf(<<Entry(EnvNameAt(2), env(<<"1">>))>>)),
                          Entry(AppNameAt(1),
                                AppOf(<<Entry(<<"eu", ".">> \o EnvNameAt(2), env(<<"2">>))>>))>>)]}

Configs ==
    StudyConfigs \cup MultiConfigs \cup LegacyPathConfigs \cup SharedDirectoryConfigs

\* names no configuration of the model defines
NameGhost == <<"ghost">>

AppArguments(cfg) ==
    {cfg.apps.o[a].k : a \in 1..Len(cfg.apps.o)} \cup {NameGhost, NameConstructor}

EnvArguments(cfg) ==
    {p.envName : p \in {PairsFrom(cfg, 1, 1)[k] : k \in 1..Len(PairsFrom(cfg, 1, 1))}}
        \cup {NameGhost, NameConstructor}

Init ==
    /\ pc = "idle"
    /\ config \in Configs
    /\ value = <<>>
    /\ sharedVars = JObj(<<>>)
    /\ appName = <<>>
    /\ environment = <<>>
    /\ outputDir = <<>>
    /\ rootDir = <<>>
    /\ lines = <<>>
    /\ result = NoResult
    /\ options = NoOptions
    /\ document = JUndefined
    /\ args = NoArgs
    /\ disk = <<>>
    /\ written = <<>>
    /\ calls = <<>>
    /\ exitCode = NoExit
    /\ lastIndex = 0
    /\ history = <<>>

GenerateEnvFile ==
    /\ pc = "idle"
    /\ \E app \in AppArguments(config), env \in EnvArguments(config) :
         LET r == generateEnvFile(config, app, env)
         IN  /\ pc' = "generateEnvFile"
             /\ appName' = app
             /\ environment' = env
             /\ result' = r.result
             /\ lines' = r.lines
             /\ UNCHANGED <<config, value, sharedVars, outputDir, rootDir>>
             /\ UNCHANGED <<options, cliVars, moduleVars>>

GenerateAllEnvFiles ==
    /\ pc = "idle"
    /\ \E out \in {<<".">>, <<"/", "out">>}, root \in {<<"/", "repo">>} :
         /\ pc' = "generateAllEnvFiles"
         /\ outputDir' = out
         /\ rootDir' = root
         /\ result' = generateAllEnvFiles(config, out, root)
         /\ UNCHANGED <<config, value, sharedVars, appName, environment, lines>>
         /\ UNCHANGED <<options, cliVars, moduleVars>>

Next == GenerateEnvFile \/ GenerateAllEnvFiles

Spec == Init /\ [][Next]_vars

----------------------------------------------------------------------------
(* Calls one after another on one module instance: the specification
   SpecCalls *)

\* two configurations that declare the same pairs and differ in the shared
\* variable A; production resolves, local references the missing M
CallConfig(a) ==
    [shared |-> SharedSection(<<Entry(NameA, JStr(a))>>),
     apps |-> JObj(<<Entry(AppNameAt(1), AppOf(
                  <<Entry(EnvNameAt(1),
                          JObj(<<Entry(<<"URL">>, JStr(<<"x">> \o Ph(NameA))),
                                 Entry(<<"ID">>, JStr(Ph(NameA) \o Ph(NameA)))>>)),
                    Entry(EnvNameAt(2),
                          ExtendedEnv(JObj(<<Entry(<<"BAD">>, JStr(Ph(NameM)))>>)))>>))>>)]

CallConfigs == {CallConfig(<<"v">>), CallConfig(<<"w">>)}

InitCalls ==
    /\ pc = "idle"
    /\ config = EmptyConfig
    /\ value = <<>>
    /\ sharedVars = JObj(<<>>)
    /\ appName = <<>>
    /\ environment = <<>>
    /\ outputDir = <<>>
    /\ rootDir = <<>>
    /\ lines = <<>>
    /\ result = NoResult
    /\ options = NoOptions
    /\ document = JUndefined
    /\ args = NoArgs
    /\ disk = <<>>
    /\ written = <<>>
    /\ calls = <<>>
    /\ exitCode = NoExit
    /\ lastIndex = 0
    /\ history = <<>>

\* one more call of generateEnvFile, with any configuration and any pair
CallGenerateEnvFile ==
    /\ Len(history) < MaxCalls
    /\ \E cfg \in CallConfigs, app \in {AppNameAt(1), NameGhost},
          env \in {EnvNameAt(1), EnvNameAt(2)} :
         \E r \in {generateEnvFileFrom(cfg, app, env, lastIndex)} :
             /\ pc' = "generateEnvFile"
             /\ config' = cfg
             /\ appName' = app
             /\ environment' = env
             /\ result' = r.result
             /\ lastIndex' = r.lastIndex
             /\ history' = Append(history, [config |-> cfg, appName |-> app,
                                            environment |-> env, result |-> r.result])
    /\ UNCHANGED <<value, sharedVars, outputDir, rootDir, lines, options, cliVars>>

NextCalls == CallGenerateEnvFile

SpecCalls == InitCalls /\ [][NextCalls]_vars

----------------------------------------------------------------------------
(* The path rules on their own: the specification SpecPath *)

\* environment names, the empty one and near misses of the special ones included
PathEnvNames ==
    {<<"local">>, <<"production">>, <<"staging">>, <<>>, <<"local", ".", "production">>}

PathAppNames == {<<"web">>, <<"api">>}

\* a `path` property: absent, empty, relative, relative through "..", absolute
PathHints(dir) ==
    {JUndefined, JStr(<<>>), JStr(<<"cfg", "/">> \o dir), JStr(<<".", ".", "/">> \o dir),
     JStr(<<"/", "srv", "/">> \o dir)}

\* what findAppDirectory hands over: null or the directory it found
AutoDetected == {JNull, JStr(<<"/", "repo", "/", "packages", "/", "web">>)}

\* the roots: the command line always passes process.cwd(), an absolute path
PathRoots == {<<"/", "repo">>, <<"/", "srv", "/", "mono">>}

PathOptionsSet ==
    [appName : PathAppNames, envName : PathEnvNames, app : PathHints(<<"app">>),
     envConfig : PathHints(<<"env">>), autoDetectedDir : AutoDetected,
     outputDir : {<<".">>, <<"/", "out">>}, rootDir : PathRoots]

InitPath ==
    /\ pc = "idle"
    /\ options \in PathOptionsSet
    /\ config = EmptyConfig
    /\ value = <<>>
    /\ sharedVars = JObj(<<>>)
    /\ appName = <<>>
    /\ environment = <<>>
    /\ outputDir = <<>>
    /\ rootDir = <<>>
    /\ lines = <<>>
    /\ result = NoResult
    /\ document = JUndefined
    /\ args = NoArgs
    /\ disk = <<>>
    /\ written = <<>>
    /\ calls = <<>>
    /\ exitCode = NoExit
    /\ lastIndex = 0
    /\ history = <<>>

DetermineFilename ==
    /\ pc = "idle"
    /\ pc' = "determineFilename"
    /\ result' = Ok(determineFilename(options.envName))
    /\ UNCHANGED <<options, generatorVars, cliVars, moduleVars>>

DetermineFilePath ==
    /\ pc = "idle"
    /\ pc' = "determineFilePath"
    /\ result' = Ok(determineFilePath(options))
    /\ UNCHANGED <<options, generatorVars, cliVars, moduleVars>>

DetermineOutputPath ==
    /\ pc = "idle"
    /\ pc' = "determineOutputPath"
    /\ result' = Ok(determineOutputPath(options))
    /\ UNCHANGED <<options, generatorVars, cliVars, moduleVars>>

NextPath == DetermineFilename \/ DetermineFilePath \/ DetermineOutputPath

SpecPath == InitPath /\ [][NextPath]_vars

----------------------------------------------------------------------------
(* Documents for the parser: the specification SpecParse *)

Obj1(k, v) == JObj(<<Entry(k, v)>>)

\* names a document may give an application, an environment or a variable
DocNames(name) == {name, <<>>, <<" ">>}

\* the values a document may give a variable
DocValues ==
    {JStr(<<"x">>), JNum(3000), JBool(TRUE), JNull,
     Annotated(JStr(<<"x">>), <<"c">>),
     Obj1(<<"value">>, JNum(3000)),
     Obj1(<<"comment">>, JStr(<<"c">>))}

\* environments of one variable, in legacy and in extended form, and the
\* empty environment
DocEnvs ==
    {Obj1(n, v) : n \in DocNames(<<"PORT">>), v \in {JStr(<<"x">>), JNum(3000), JBool(TRUE)}}
        \cup {ExtendedEnv(Obj1(n, v)) : n \in DocNames(<<"PORT">>), v \in DocValues}
        \cup {ExtendedEnvAt(Obj1(<<"PORT">>, JStr(<<"x">>)), <<"cfg">>), JObj(<<>>)}

DocShared ==
    {JUndefined, JObj(<<>>), SharedSection(<<Entry(NameA, JStr(<<"v">>))>>),
     SharedSection(<<Entry(NameA, JNum(8080))>>), SharedSection(<<Entry(NameA, JBool(FALSE))>>)}

\* the document { shared, apps, extra? }, the keys that are undefined left out
DocOf(sh, apps, extra) ==
    JObj((IF sh = JUndefined THEN <<>> ELSE <<Entry(<<"shared">>, sh)>>)
             \o (IF apps = JUndefined THEN <<>> ELSE <<Entry(<<"apps">>, apps)>>)
             \o (IF extra THEN <<Entry(<<"version">>, JNum(1))>> ELSE <<>>))

\* one application of one environment, every part of it varied
StudyDocs ==
    {DocOf(sh, Obj1(a, AppOf(<<Entry(e, env)>>)), FALSE) :
        sh \in DocShared, a \in DocNames(<<"web">>), e \in DocNames(<<"local">>), env \in DocEnvs}
    \cup {DocOf(JUndefined, Obj1(<<"web">>, AppOf(<<Entry(<<"local">>, env)>>)), TRUE) : env \in DocEnvs}

\* the environments of an application of a larger document: none, n sound
\* ones, or n of which the last holds a null
DocAppKinds == {"none", "sound", "flawed"}

DocEnvironments(kind, n) ==
    IF kind = "none" THEN <<>>
    ELSE [j \in 1..n |->
             Entry(EnvNameAt(j),
                   Obj1(<<"PORT">>, IF kind = "flawed" /\ j = n THEN JNull ELSE JStr(<<"x">>)))]

RECURSIVE KindLists(_)
KindLists(n) ==
    IF n = 0 THEN {<<>>}
    ELSE {Append(ks, k) : ks \in KindLists(n - 1), k \in DocAppKinds}

\* documents of up to MaxApps applications of up to MaxEnvs environments
LargeDocs ==
    {DocOf(JUndefined,
           JObj([i \in 1..Len(ks) |->
                    Entry(AppNameAt(i), AppOf(DocEnvironments(ks[i], n)))]), extra) :
        ks \in UNION {KindLists(k) : k \in 0..MaxApps}, n \in 1..MaxEnvs, extra \in BOOLEAN}

\* documents that are no object, or lack a part
OddDocs ==
    {YamlThrows, JNull, JStr(<<>>), JStr(<<"x">>), JNum(0), JObj(<<>>),
     DocOf(JObj(<<>>), JUndefined, FALSE),
     DocOf(JUndefined, JStr(<<"x">>), FALSE),
     DocOf(JStr(<<"x">>), Obj1(<<"web">>, AppOf(<<Entry(<<"local">>, JObj(<<>>))>>)), FALSE),
     DocOf(JUndefined, Obj1(<<"web">>, JObj(<<>>)), FALSE),
     DocOf(JUndefined, Obj1(<<"web">>, JStr(<<"x">>)), FALSE),
     DocOf(JUndefined,
           Obj1(<<"web">>, JObj(<<Entry(<<"path">>, JNum(1)),
                                  Entry(<<"environments">>,
                                        Obj1(<<"local">>, JObj(<<>>)))>>)), FALSE)}

Documents == StudyDocs \cup LargeDocs \cup OddDocs

InitParse ==
    /\ pc = "idle"
    /\ document \in Documents
    /\ config = EmptyConfig
    /\ value = <<>>
    /\ sharedVars = JObj(<<>>)
    /\ appName = <<>>
    /\ environment = <<>>
    /\ outputDir = <<>>
    /\ rootDir = <<>>
    /\ lines = <<>>
    /\ result = NoResult
    /\ options = NoOptions
    /\ args = NoArgs
    /\ disk = <<>>
    /\ written = <<>>
    /\ calls = <<>>
    /\ exitCode = NoExit
    /\ lastIndex = 0
    /\ history = <<>>

ParseConfig ==
    /\ pc = "idle"
    /\ pc' = "parseConfig"
    /\ result' = parseConfig(document).result
    /\ config' = IF parseConfig(document).result.t = "ok" THEN parseConfig(document).config
                 ELSE config
    /\ UNCHANGED <<value, sharedVars, appName, environment, outputDir, rootDir, lines,
                   options, document, args, disk, written, calls, exitCode, moduleVars>>

NextParse == ParseConfig

SpecParse == InitParse /\ [][NextParse]_vars

----------------------------------------------------------------------------
(* runCLI: one run of the command line on a file system.  `disk` stays the
   file system the run started from; `written` is the writeFile calls of the
   run. *)

CustomConfigPath == <<"conf", "/", "my.yaml">>

NameScoped == <<"@", "org", "/", "web">>

ArgsOf(init, apply, all, app, env, configPath) ==
    [init |-> init, apply |-> apply, all |-> all, app |-> app, env |-> env,
     config |-> configPath]

DiskOf(exists, text, writable) ==
    [exists |-> exists, text |-> text, writable |-> writable]

\* configuration files that validate: the multi-application configurations,
\* and one whose application has a scoped name
CliDocs ==
    {DocOf(cfg.shared, cfg.apps, FALSE) : cfg \in MultiConfigs}
        \cup {DocOf(JUndefined,
                    Obj1(NameScoped, AppOf(<<Entry(<<"local">>,
                             Obj1(<<"ID">>, JStr(<<"scoped">>)))>>)), FALSE)}

\* those of one application
OneAppDocs == {d \in CliDocs : Len(Get(d, <<"apps">>).o) = 1}

\* configuration files that do not: no YAML, an empty file, no application
InvalidDocs == {YamlThrows, JNull, DocOf(JUndefined, JObj(<<>>), FALSE)}

\* the application directories a monorepo may have
DirSets ==
    {{},
     {ProcessCwd \o <<"/", "packages", "/">> \o AppNameAt(1)},
     {ProcessCwd \o <<"/", "apps", "/">> \o AppNameAt(1),
      ProcessCwd \o <<"/">> \o AppNameAt(1)},
     {ProcessCwd \o <<"/">> \o AppNameAt(2),
      ProcessCwd \o <<"/", "packages", "/">> \o NameScoped}}

ApplyArgs == ArgsOf(FALSE, TRUE, FALSE, JUndefined, JUndefined, DefaultConfigPath)
AllArgs == ArgsOf(FALSE, FALSE, TRUE, JUndefined, JUndefined, DefaultConfigPath)
SingleArgs(app, env) == ArgsOf(FALSE, FALSE, FALSE, JStr(app), JStr(env), DefaultConfigPath)

\* a run starts from the parsed command line a and the file system d
StartsFrom(a, d) == args = a /\ disk = d

InitArgs ==
    {ArgsOf(TRUE, FALSE, FALSE, JUndefined, JUndefined, DefaultConfigPath),
     ArgsOf(TRUE, FALSE, FALSE, JUndefined, JUndefined, CustomConfigPath),
     ArgsOf(TRUE, TRUE, TRUE, JStr(AppNameAt(1)), JStr(EnvNameAt(1)), DefaultConfigPath)}

\* command lines that name no action
NoActionArgs ==
    {ArgsOf(FALSE, FALSE, FALSE, app, env, DefaultConfigPath) :
        app \in {JUndefined, JStr(<<>>), JStr(AppNameAt(1))},
        env \in {JUndefined, JStr(<<>>)}}
        \cup {ArgsOf(FALSE, FALSE, FALSE, JUndefined, JStr(EnvNameAt(1)), DefaultConfigPath)}

\* command lines that name more than one action
MixedArgs ==
    {ArgsOf(FALSE, apply, all, app, env, DefaultConfigPath) :
        apply \in BOOLEAN, all \in BOOLEAN,
        app \in {JUndefined, JStr(AppNameAt(1))},
        env \in {JUndefined, JStr(EnvNameAt(1))}}
      \ ({ApplyArgs, AllArgs, SingleArgs(AppNameAt(1), EnvNameAt(1))} \cup NoActionArgs)

ActionArgs == {ApplyArgs, AllArgs, SingleArgs(AppNameAt(1), EnvNameAt(1))}

\* the names --app and --env are given: a declared one, an undeclared one,
\* and the name of a member of Object.prototype
SingleApps == {AppNameAt(1), NameGhost, NameConstructor}
SingleEnvs == {EnvNameAt(1), NameGhost, NameConstructor}

\* the starts of a run: --init; no action; a configuration file that is
\* somewhere else or is not valid; --apply; --all; --app with --env; several
\* actions at once
InitCLI ==
    /\ pc = "idle"
    /\ \/ \E a \in InitArgs, exists \in SUBSET {DefaultConfigPath, CustomConfigPath},
              writable \in BOOLEAN :
             StartsFrom(a, DiskOf(exists, JNull, writable))
       \/ \E a \in NoActionArgs, doc \in {d \in CliDocs : Len(d.o) = 1} :
             StartsFrom(a, DiskOf({DefaultConfigPath}, doc, TRUE))
       \/ \E a \in ActionArgs, doc \in {d \in CliDocs : Len(d.o) = 1} :
             StartsFrom(a, DiskOf({CustomConfigPath}, doc, TRUE))
       \/ \E a \in ActionArgs, doc \in InvalidDocs :
             StartsFrom(a, DiskOf({DefaultConfigPath}, doc, TRUE))
       \/ \E doc \in CliDocs, dirs \in DirSets, writable \in BOOLEAN :
             StartsFrom(ApplyArgs, DiskOf({DefaultConfigPath} \cup dirs, doc, writable))
       \/ \E doc \in CliDocs, writable \in BOOLEAN :
             StartsFrom(AllArgs, DiskOf({DefaultConfigPath}, doc, writable))
       \/ \E doc \in CliDocs, app \in SingleApps, env \in SingleEnvs :
             StartsFrom(SingleArgs(app, env), DiskOf({DefaultConfigPath}, doc, TRUE))
       \/ \E doc \in CliDocs :
             StartsFrom(SingleArgs(AppNameAt(1), EnvNameAt(1)),
                        DiskOf({DefaultConfigPath}, doc, FALSE))
       \/ \E a \in MixedArgs, doc \in OneAppDocs :
             StartsFrom(a, DiskOf({DefaultConfigPath,
                                   ProcessCwd \o <<"/", "packages", "/">> \o AppNameAt(1)},
                                  doc, TRUE))
    /\ config = EmptyConfig
    /\ value = <<>>
    /\ sharedVars = JObj(<<>>)
    /\ appName = <<>>
    /\ environment = <<>>
    /\ outputDir = <<>>
    /\ rootDir = <<>>
    /\ lines = <<>>
    /\ result = NoResult
    /\ options = NoOptions
    /\ document = JUndefined
    /\ written = <<>>
    /\ calls = <<>>
    /\ exitCode = NoExit
    /\ lastIndex = 0
    /\ history = <<>>

RunCLI ==
    /\ pc = "idle"
    /\ \E r \in {runCLI(disk, args)} :
           /\ pc' = "runCLI"
           /\ exitCode' = r.code
           /\ written' = r.written
           /\ calls' = r.calls
           /\ document' = r.read
           /\ result' = r.parsed.result
           /\ config' = IF r.parsed.result.t = "ok" THEN r.parsed.config ELSE config
    /\ UNCHANGED <<value, sharedVars, appName, environment, outputDir, rootDir, lines,
                   options, args, disk, moduleVars>>

NextCLI == RunCLI

SpecCLI == InitCLI /\ [][NextCLI]_vars

----------------------------------------------------------------------------
(* findAppDirectory on its own: the specification SpecFind *)

\* application names of one segment and of two, with and without a scope
FindNames == {AppNameAt(1), <<"web", "/", "ui">>, NameScoped, <<"@", "org">>}

FindRoots == {<<"/", "repo">>, ProcessCwd}

\* the directories a name may be found at under a root, and one it may not
Candidates(name, root) ==
    {root \o <<"/", "packages", "/">> \o name,
     root \o <<"/", "apps", "/">> \o name,
     root \o <<"/">> \o name,
     root \o <<"/", "lib", "/">> \o name}

InitFind ==
    /\ pc = "idle"
    /\ \E name \in FindNames, root \in FindRoots :
          \E exists \in SUBSET Candidates(name, root) :
              /\ appName = name
              /\ rootDir = root
              /\ disk = DiskOf(exists, JNull, TRUE)
    /\ config = EmptyConfig
    /\ value = <<>>
    /\ sharedVars = JObj(<<>>)
    /\ environment = <<>>
    /\ outputDir = <<>>
    /\ lines = <<>>
    /\ result = NoResult
    /\ options = NoOptions
    /\ document = JUndefined
    /\ args = NoArgs
    /\ written = <<>>
    /\ calls = <<>>
    /\ exitCode = NoExit
    /\ lastIndex = 0
    /\ history = <<>>

FindAppDirectory ==
    /\ pc = "idle"
    /\ pc' = "findAppDirectory"
    /\ result' = findAppDirectory(disk, appName, rootDir)
    /\ calls' = findAppDirectoryProbes(disk, appName, rootDir)
    /\ UNCHANGED <<config, value, sharedVars, appName, environment, outputDir, rootDir,
                   lines, options, document, args, disk, written, exitCode, moduleVars>>

NextFind == FindAppDirectory

SpecFind == InitFind /\ [][NextFind]_vars

----------------------------------------------------------------------------
(* The configuration model: the class EnvConfig, and the specification
   SpecModel.  cfg is the instance: [shared, apps]. *)

\* what an accessor gives: a value v, a list of names, or an exception
Answer(v) == [t |-> "returned", v |-> v, names |-> <<>>]
NamesAnswer(ns) == [t |-> "returned", v |-> JUndefined, names |-> ns]
Raises == [t |-> "throw", v |-> JUndefined, names |-> <<>>]

\* Object.keys(this.apps)
getAppNames(cfg) == NamesAnswer(Keys(cfg.apps))

\* this.apps[appName]
getApp(cfg, app) == Answer(Get(cfg.apps, app))

\* app ? Object.keys(app.environments) : []; Object.keys(undefined) throws
getEnvironmentNames(cfg, app) ==
    LET a == getApp(cfg, app).v
    IN  IF ~Truthy(a) THEN NamesAnswer(<<>>)
        ELSE IF Get(a, <<"environments">>).t \in {"undefined", "null"} THEN Raises
        ELSE NamesAnswer(Keys(Get(a, <<"environments">>)))

\* app?.environments[envName]; a property read of undefined throws
getEnvironment(cfg, app, env) ==
    LET a == getApp(cfg, app).v
    IN  IF a.t \in {"undefined", "null"} THEN Answer(JUndefined)
        ELSE IF Get(a, <<"environments">>).t \in {"undefined", "null"} THEN Raises
        ELSE Answer(Get(Get(a, <<"environments">>), env))

\* appName in this.apps
hasApp(cfg, app) == Answer(JBool(In(app, cfg.apps)))

\* app ? envName in app.environments : false; `in` on undefined throws
hasEnvironment(cfg, app, env) ==
    LET a == getApp(cfg, app).v
    IN  IF ~Truthy(a) THEN Answer(JBool(FALSE))
        ELSE IF Get(a, <<"environments">>).t # "object" THEN Raises
        ELSE Answer(JBool(In(env, Get(a, <<"environments">>))))

\* the models the accessors are asked: of one application and of two
ModelConfigs ==
    {c \in MultiConfigs : Len(c.apps.o) = 1} \cup LegacyPathConfigs
        \cup SharedDirectoryConfigs

\* the names asked for: declared ones, one that is not, and the name of a
\* member of Object.prototype
AskedApps == {AppNameAt(1), AppNameAt(2), NameGhost, NameConstructor}
AskedEnvs == {EnvNameAt(1), EnvNameAt(2), NameGhost, NameConstructor}

InitModel ==
    /\ pc = "idle"
    /\ config \in ModelConfigs
    /\ appName \in AskedApps
    /\ environment \in AskedEnvs
    /\ value = <<>>
    /\ sharedVars = JObj(<<>>)
    /\ outputDir = <<>>
    /\ rootDir = <<>>
    /\ lines = <<>>
    /\ result = NoResult
    /\ options = NoOptions
    /\ document = JUndefined
    /\ args = NoArgs
    /\ disk = <<>>
    /\ written = <<>>
    /\ calls = <<>>
    /\ exitCode = NoExit
    /\ lastIndex = 0
    /\ history = <<>>

\* an accessor is called and gives r; the instance has readonly fields and no
\* accessor assigns to them
Accessor(name, r) ==
    /\ pc = "idle"
    /\ pc' = name
    /\ result' = r
    /\ UNCHANGED <<generatorVars, options, cliVars, moduleVars>>

GetAppNames == Accessor("getAppNames", getAppNames(config))
GetApp == Accessor("getApp", getApp(config, appName))
GetEnvironmentNames == Accessor("getEnvironmentNames", getEnvironmentNames(config, appName))
GetEnvironment == Accessor("getEnvironment", getEnvironment(config, appName, environment))
HasApp == Accessor("hasApp", hasApp(config, appName))
HasEnvironment == Accessor("hasEnvironment", hasEnvironment(config, appName, environment))

NextModel ==
    \/ GetAppNames
    \/ GetApp
    \/ GetEnvironmentNames
    \/ GetEnvironment
    \/ HasApp
    \/ HasEnvironment

SpecModel == InitModel /\ [][NextModel]_vars

----------------------------------------------------------------------------
(* What the specification says of placeholders, stated without the code. *)

\* s[i..j] is one placeholder ${shared:NAME}, NAME non-empty and free of "}"
PlaceholderAt(s, i, j) ==
    /\ i >= 1 /\ j <= Len(s) /\ j >= i + 4
    /\ s[i] = "$" /\ s[i + 1] = "{" /\ s[i + 2] = "shared:" /\ s[j] = "}"
    /\ \A k \in (i + 3)..(j - 1) : s[k] # "}"

\* the placeholder occurrences <<i, j>> of s that start at or before n: taken
\* left to right, an occurrence never starting inside an earlier one
RECURSIVE OccurrencesUpTo(_, _)
OccurrencesUpTo(s, n) ==
    IF n = 0 THEN {}
    ELSE LET prev == OccurrencesUpTo(s, n - 1)
             here == {<<n, j>> : j \in {k \in 1..Len(s) : PlaceholderAt(s, n, k)}}
         IN  IF \A o \in prev : o[2] < n THEN prev \cup here ELSE prev

Occurrences(s) == OccurrencesUpTo(s, Len(s))

NameOf(s, o) == SubSeq(s, o[1] + 3, o[2] - 1)

\* the value the mapping holds under an own key
Mapped(shared, name) == shared.o[CHOOSE i \in 1..Len(shared.o) : shared.o[i].k = name].v

\* the written form of the numbers the model uses
DecimalForm(n) ==
    CASE n = 8080 -> <<"8", "0", "8", "0">>
      [] n = 3000 -> <<"3", "0", "0", "0">>
      [] n = 0 -> <<"0">>
      [] n = -5 -> <<"-", "5">>

\* the string form of a scalar: strings as they are, numbers in decimal,
\* booleans as true / false
StringForm(x) ==
    CASE x.t = "string" -> x.s
      [] x.t = "number" -> DecimalForm(x.n)
      [] x.t = "boolean" -> IF x.b THEN <<"true">> ELSE <<"false">>

\* s from index i on with every occurrence (of occ) replaced by its mapped
\* string form
RECURSIVE SubstitutedFrom(_, _, _, _)
SubstitutedFrom(s, i, shared, occ) ==
    IF i > Len(s) THEN <<>>
    ELSE IF \E o \in occ : o[1] = i
        THEN LET o == CHOOSE q \in occ : q[1] = i
             IN  StringForm(Mapped(shared, NameOf(s, o)))
                     \o SubstitutedFrom(s, o[2] + 1, shared, occ)
    ELSE <<s[i]>> \o SubstitutedFrom(s, i + 1, shared, occ)

Substituted(s, shared) == SubstitutedFrom(s, 1, shared, Occurrences(s))

\* the referenced names absent from the mapping: each once, by first occurrence
RECURSIVE MissingFrom(_, _, _, _, _)
MissingFrom(s, i, shared, occ, acc) ==
    IF i > Len(s) THEN acc
    ELSE IF \E o \in occ : o[1] = i
        THEN LET name == NameOf(s, CHOOSE q \in occ : q[1] = i)
             IN  IF HasOwn(shared, name) \/ \E k \in 1..Len(acc) : acc[k] = name
                     THEN MissingFrom(s, i + 1, shared, occ, acc)
                 ELSE MissingFrom(s, i + 1, shared, occ, Append(acc, name))
    ELSE MissingFrom(s, i + 1, shared, occ, acc)

MissingNames(s, shared) == MissingFrom(s, 1, shared, Occurrences(s), <<>>)

Quoted(names) == [i \in 1..Len(names) |-> <<"'">> \o names[i] \o <<"'">>]

\* the message the specification gives for the missing names ms
MissingNamesMessage(ms) ==
    IF Len(ms) = 1 THEN <<"Shared variable ", "'">> \o ms[1] \o <<"'", " not found">>
    ELSE <<"Shared variables not found: ">> \o Join(Quoted(ms), <<", ">>)

----------------------------------------------------------------------------
(* Claims about resolveVariable, checked under SpecResolve. *)

\* C1: when every name a ${shared:NAME} placeholder of the value references is
\* a key of the mapping, resolveVariable succeeds and returns the value with
\* every placeholder occurrence replaced by the string form of the mapped value
\* and all other text unchanged.
C1_AllPlaceholdersReplaced ==
    (pc = "resolveVariable" /\ MissingNames(value, sharedVars) = <<>>)
        => result = Ok(Substituted(value, sharedVars))

\* C1 happens: a repeated and a distinct placeholder, a string and a number
C1_Witness ==
    /\ pc = "resolveVariable"
    /\ value = Ph(NameA) \o Ph(NameB) \o Ph(NameA)
    /\ sharedVars = JObj(<<Entry(NameA, JStr(<<"v">>)), Entry(NameB, JNum(8080))>>)
    /\ result = Ok(<<"v", "8", "0", "8", "0", "v">>)

\* C2: when the value references names absent from the mapping, resolveVariable
\* fails and its message names every distinct missing name in order of first
\* occurrence: the single-name message for one name, the list message for more.
C2_EveryMissingNameReported ==
    (pc = "resolveVariable" /\ MissingNames(value, sharedVars) # <<>>)
        => result = Err(MissingNamesMessage(MissingNames(value, sharedVars)))

----------------------------------------------------------------------------
(* What the specification says of one environment file, stated without the  *)
(* code.                                                                    *)

Contains(text, part) ==
    \E i \in 1..(Len(text) - Len(part) + 1) : SubSeq(text, i, i + Len(part) - 1) = part

Occurs(text, part) ==
    Cardinality({i \in 1..(Len(text) - Len(part) + 1) :
                    SubSeq(text, i, i + Len(part) - 1) = part})

\* text split at every newline
RECURSIVE SplitLines(_, _, _)
SplitLines(text, cur, acc) ==
    IF text = <<>> THEN Append(acc, cur)
    ELSE IF Head(text) = "\n" THEN SplitLines(Tail(text), <<>>, Append(acc, cur))
    ELSE SplitLines(Tail(text), Append(cur, Head(text)), acc)

\* the application and the environment are the configuration's own
PairDeclared(cfg, app, env) ==
    /\ HasOwn(cfg.apps, app)
    /\ HasOwn(Mapped(Mapped(cfg.apps, app), <<"environments">>), env)

EnvironmentOf(cfg, app, env) ==
    Mapped(Mapped(Mapped(cfg.apps, app), <<"environments">>), env)

\* the shared variables of the configuration, none when it has no shared section
SharedVariablesOf(cfg) ==
    IF cfg.shared.t = "object" /\ HasOwn(cfg.shared, <<"variables">>)
        THEN Mapped(cfg.shared, <<"variables">>)
    ELSE JObj(<<>>)

\* the variables of an environment as (name, scalar, comment) triples in
\* declaration order; comment is JUndefined when the variable carries none
Triples(env) ==
    LET vs == IF HasOwn(env, <<"variables">>) /\ Mapped(env, <<"variables">>).t = "object"
                  THEN Mapped(env, <<"variables">>).o
              ELSE env.o
    IN  [i \in 1..Len(vs) |->
            IF vs[i].v.t = "object"
                THEN [name |-> vs[i].k,
                      scalar |-> Mapped(vs[i].v, <<"value">>),
                      comment |-> IF HasOwn(vs[i].v, <<"comment">>)
                                      THEN Mapped(vs[i].v, <<"comment">>)
                                  ELSE JUndefined]
            ELSE [name |-> vs[i].k, scalar |-> vs[i].v, comment |-> JUndefined]]

\* the variables of the environment that reference a missing shared name
FailingVariables(env, shared) ==
    SelectSeq(Triples(env), LAMBDA tr : MissingNames(StringForm(tr.scalar), shared) # <<>>)

\* the value part the specification gives a variable whose references resolve
ExpectedValue(tr, shared) ==
    LET literal == StringForm(tr.scalar)
        resolved == Substituted(literal, shared)
    IN  IF resolved # literal THEN resolved ELSE literal

\* the variable carries a comment; an empty comment string counts when
\* emptyCounts
CarriesComment(tr, emptyCounts) ==
    tr.comment # JUndefined /\ (emptyCounts \/ tr.comment.s # <<>>)

\* the text of the lines of the triples trs, each line ended by one newline
RECURSIVE LinesText(_, _, _)
LinesText(trs, shared, emptyCounts) ==
    IF trs = <<>> THEN <<>>
    ELSE (IF CarriesComment(Head(trs), emptyCounts)
              THEN <<"# ">> \o Head(trs).comment.s \o <<"\n">>
          ELSE <<>>)
           \o Head(trs).name \o <<"=">> \o ExpectedValue(Head(trs), shared) \o <<"\n">>
           \o LinesText(Tail(trs), shared, emptyCounts)

\* no line of the text is empty
NoBlankLine(text) ==
    /\ text # <<>> => text[1] # "\n"
    /\ \A i \in 1..(Len(text) - 1) : ~(text[i] = "\n" /\ text[i + 1] = "\n")

\* generateEnvFile returned content for a pair the configuration declares
Generated ==
    /\ pc = "generateEnvFile"
    /\ PairDeclared(config, appName, environment)
    /\ result.t = "ok"

\* the assignment lines of a content: the lines that hold "=" and are no comment
AssignmentLines(text) ==
    SelectSeq(SplitLines(text, <<>>, <<>>),
              LAMBDA l : l # <<>> /\ Head(l) # "# " /\ \E i \in 1..Len(l) : l[i] = "=")

\* the name of an assignment line: what precedes its first "="
LineName(l) ==
    SubSeq(l, 1, (CHOOSE i \in 1..Len(l) : l[i] = "=" /\ \A k \in 1..(i - 1) : l[k] # "=") - 1)

----------------------------------------------------------------------------
(* Claims about generateEnvFile, checked under Spec. *)

\* C3: generateEnvFile does not stop at the first variable that fails to
\* resolve: when two or more variables of the environment reference missing
\* shared names, the one failure returned holds every distinct missing name
\* exactly once and names every variable that failed.
C3_AllFailuresAggregated ==
    (/\ pc = "generateEnvFile"
     /\ PairDeclared(config, appName, environment)
     /\ Len(FailingVariables(EnvironmentOf(config, appName, environment),
                             SharedVariablesOf(config))) >= 2)
        => LET shared == SharedVariablesOf(config)
               failing == FailingVariables(EnvironmentOf(config, appName, environment), shared)
           IN  /\ result.t = "err"
               /\ \A k \in 1..Len(failing) :
                    /\ Contains(result.message, failing[k].name)
                    /\ LET ms == MissingNames(StringForm(failing[k].scalar), shared)
                       IN  \A m \in 1..Len(ms) :
                               Occurs(result.message, <<"'">> \o ms[m] \o <<"'">>) = 1

\* C4 as claimed: on success the content is the concatenation, in variable
\* order, of each variable's comment line (when it carries a comment) and
\* assignment line, every line ended by one newline, with no blank line, for
\* every environment, one with zero variables included.
C4_AsClaimed ==
    Generated
        => /\ result.value = LinesText(Triples(EnvironmentOf(config, appName, environment)),
                                       SharedVariablesOf(config), TRUE)
           /\ NoBlankLine(result.value)

\* C4 as amended: on success the content is the concatenation, in variable
\* order, of each variable's comment line (when it carries a non-empty
\* comment) and assignment line, every line ended by one newline and, for
\* newline-free names, values and comments, no line blank, when the environment
\* has at least one variable; with zero variables it is a single newline.
C4_ContentIsTheLines ==
    Generated
        => LET trs == Triples(EnvironmentOf(config, appName, environment))
           IN  IF trs = <<>> THEN result.value = <<"\n">>
               ELSE /\ result.value = LinesText(trs, SharedVariablesOf(config), FALSE)
                    /\ NoBlankLine(result.value)

\* C4 happens: a comment line, an empty comment that gives none, two variables
C4_Witness ==
    /\ Generated
    /\ Len(Triples(EnvironmentOf(config, appName, environment))) = 2
    /\ result.value = <<"# ", "c", "\n", "PORT", "=", "v", "\n", "API_URL", "=", "0", "\n">>

C6_ValuePart ==
    Generated
        => LET trs == Triples(EnvironmentOf(config, appName, environment))
               ls == AssignmentLines(result.value)
           IN  \A i \in 1..Len(trs) :
                   /\ i <= Len(ls)
                   /\ ls[i] = trs[i].name \o <<"=">>
                                \o ExpectedValue(trs[i], SharedVariablesOf(config))

\* C6 happens: a bare number beside a value two substitutions changed
C6_Witness ==
    /\ Generated
    /\ result.value = <<"PORT", "=", "3", "0", "0", "0", "\n",
                        "API_URL", "=", "x", "v", "8", "0", "8", "0", "\n">>

\* C7: generateEnvFile with an application name that is no application of the
\* configuration returns a failure value (no exception, no content) whose
\* message holds "App '<name>' not found" and every application name.
C7_UnknownApplicationFails ==
    (pc = "generateEnvFile" /\ ~HasOwn(config.apps, appName))
        => /\ result.t = "err"
           /\ Contains(result.message, <<"App ", "'">> \o appName \o <<"'", " not found">>)
           /\ \A a \in 1..Len(config.apps.o) : Contains(result.message, config.apps.o[a].k)

\* C8: generateEnvFile with an application of the configuration and an
\* environment name that is no environment of it returns a failure value whose
\* message holds "Environment '<name>' not found" and every environment name
\* of the application.
C8_UnknownEnvironmentFails ==
    (/\ pc = "generateEnvFile"
     /\ HasOwn(config.apps, appName)
     /\ ~PairDeclared(config, appName, environment))
        => LET envs == Mapped(Mapped(config.apps, appName), <<"environments">>)
           IN  /\ result.t = "err"
               /\ Contains(result.message,
                           <<"Environment ", "'">> \o environment \o <<"'", " not found">>)
               /\ \A e \in 1..Len(envs.o) : Contains(result.message, envs.o[e].k)

----------------------------------------------------------------------------
(* Claims about generateAllEnvFiles, checked under Spec. *)

\* the <<application, environment>> names of the configuration: applications
\* in their order, the environments of one application in theirs
RECURSIVE DeclaredPairsFrom(_, _)
DeclaredPairsFrom(cfg, a) ==
    IF a > Len(cfg.apps.o) THEN <<>>
    ELSE LET envs == Mapped(cfg.apps.o[a].v, <<"environments">>).o
         IN  [e \in 1..Len(envs) |-> <<cfg.apps.o[a].k, envs[e].k>>]
                 \o DeclaredPairsFrom(cfg, a + 1)

DeclaredPairs(cfg) == DeclaredPairsFrom(cfg, 1)

\* every variable of the pair resolves against the shared variables
PairResolves(cfg, pr) ==
    FailingVariables(EnvironmentOf(cfg, pr[1], pr[2]), SharedVariablesOf(cfg)) = <<>>

\* the content of one environment file (C4)
ExpectedContent(cfg, pr) ==
    LET trs == Triples(EnvironmentOf(cfg, pr[1], pr[2]))
    IN  IF trs = <<>> THEN <<"\n">> ELSE LinesText(trs, SharedVariablesOf(cfg), FALSE)

\* neither the pair's application nor its environment gives a path
NoPathHint(cfg, pr) ==
    /\ ~HasOwn(Mapped(cfg.apps, pr[1]), <<"path">>)
    /\ ~HasOwn(EnvironmentOf(cfg, pr[1], pr[2]), <<"path">>)

\* the flat file {application}.{environment}.env under the output directory
FlatFile(out, pr) ==
    (IF out = <<".">> THEN <<>> ELSE out \o <<"/">>) \o pr[1] \o <<".">> \o pr[2] \o <<".", "env">>

\* C9: when every pair's content generates, generateAllEnvFiles returns one
\* (path, content) entry for each (application, environment) pair and no other,
\* in application order and, within an application, environment order.
C9_OneEntryPerPair ==
    (pc = "generateAllEnvFiles"
        /\ \A k \in 1..Len(DeclaredPairs(config)) : PairResolves(config, DeclaredPairs(config)[k]))
        => LET pairs == DeclaredPairs(config)
           IN  /\ result.t = "ok"
               /\ Len(result.files) = Len(pairs)
               /\ \A k \in 1..Len(pairs) :
                    /\ result.files[k].content = ExpectedContent(config, pairs[k])
                    /\ NoPathHint(config, pairs[k])
                         => result.files[k].path = FlatFile(outputDir, pairs[k])

\* C9 happens: two applications of two environments each, all four generated
C9_Witness ==
    /\ pc = "generateAllEnvFiles"
    /\ outputDir = <<".">>
    /\ result.t = "ok"
    /\ Len(result.files) = 4
    /\ result.files[1] = [path |-> <<"web", ".", "production", ".", "env">>,
                          content |-> <<"ID", "=", "1", ".", "1", "\n">>]
    /\ result.files[2] = [path |-> <<"web", ".", "local", ".", "env">>,
                          content |-> <<"ID", "=", "1", ".", "2", "\n">>]
    /\ result.files[3] = [path |-> <<"/", "repo", "/", "apps", "/", "api", "/", ".", "env">>,
                          content |-> <<"ID", "=", "2", ".", "1", "\n">>]
    /\ result.files[4] = [path |-> <<"/", "abs", "/", "local", "/", ".", "env", ".", "local">>,
                          content |-> <<"ID", "=", "2", ".", "2", "\n">>]

\* the position of the first pair some variable of which does not resolve
FirstFailing(cfg) ==
    CHOOSE k \in 1..Len(DeclaredPairs(cfg)) :
        /\ ~PairResolves(cfg, DeclaredPairs(cfg)[k])
        /\ \A j \in 1..(k - 1) : PairResolves(cfg, DeclaredPairs(cfg)[j])

\* C10: when content generation fails for some pair, generateAllEnvFiles
\* returns a failure and no file entry; the message is "Failed to generate env
\* for {app}.{env}: " and the failure message of the first failing pair in
\* iteration order; no later pair is processed or reported.
C10_FailFast ==
    (pc = "generateAllEnvFiles"
        /\ \E k \in 1..Len(DeclaredPairs(config)) : ~PairResolves(config, DeclaredPairs(config)[k]))
        => LET pr == DeclaredPairs(config)[FirstFailing(config)]
           IN  /\ result.t = "err"
               /\ result.files = <<>>
               /\ result.message =
                    <<"Failed to generate env for ">> \o pr[1] \o <<".">> \o pr[2] \o <<": ">>
                        \o generateEnvFile(config, pr[1], pr[2]).result.message

\* C10 happens: the second and a later pair fail, the second is the one reported
C10_Witness ==
    /\ pc = "generateAllEnvFiles"
    /\ Len(DeclaredPairs(config)) = 4
    /\ PairResolves(config, DeclaredPairs(config)[1])
    /\ ~PairResolves(config, DeclaredPairs(config)[2])
    /\ ~PairResolves(config, DeclaredPairs(config)[3])
    /\ result = Err(<<"Failed to generate env for ", "web", ".", "local", ": ",
                      "Failed to resolve variable for ", "BAD", ": ",
                      "Shared variable ", "'", "M", "1", "2", "'", " not found">>)

----------------------------------------------------------------------------
(* Claims about the path rules, checked under SpecPath. *)

\* the file name the filename law gives an environment name
FileNameFor(e) ==
    CASE e = <<"local">> -> <<".", "env", ".", "local">>
      [] e = <<"production">> -> <<".", "env">>
      [] OTHER -> <<".", "env", ".">> \o e

\* C12: determineFilename(e) is ".env.local" exactly when e is "local", ".env"
\* exactly when e is "production", and ".env." followed by e for every other
\* name, the empty one included; nothing but e decides it.
C12_FilenameLaw ==
    pc = "determineFilename"
        => /\ (result.value = <<".", "env", ".", "local">>) <=> (options.envName = <<"local">>)
           /\ (result.value = <<".", "env">>) <=> (options.envName = <<"production">>)
           /\ options.envName \notin {<<"local">>, <<"production">>}
                => result.value = <<".", "env", ".">> \o options.envName
           /\ result = Ok(FileNameFor(options.envName))

\* C12 happens: the empty environment name gives ".env."
C12_Witness ==
    /\ pc = "determineFilename"
    /\ options.envName = <<>>
    /\ options.appName = <<"api">>
    /\ result = Ok(<<".", "env", ".">>)

\* the directory above dir: dir without its last segment
ParentOf(dir) ==
    SubSeq(dir, 1, (CHOOSE i \in 1..Len(dir) :
                        dir[i] = "/" /\ \A j \in (i + 1)..Len(dir) : dir[j] # "/") - 1)

\* the directory a hint names: itself when it begins with "/", otherwise the
\* place it names seen from the root
HintDirectory(h, root) ==
    IF h = <<>> THEN root
    ELSE IF Head(h) = "/" THEN h
    ELSE IF Len(h) >= 3 /\ SubSeq(h, 1, 3) = <<".", ".", "/">>
        THEN ParentOf(root) \o <<"/">> \o SubSeq(h, 4, Len(h))
    ELSE root \o <<"/">> \o h

InDirectory(dir, name) == dir \o <<"/">> \o name

FlatName(o) == o.appName \o <<".">> \o o.envName \o <<".", "env">>

\* C11 as claimed: determineOutputPath uses the environment-level hint
\* whenever it is set, to any string; otherwise the application-level hint
\* whenever it is set; otherwise the auto-detected directory when one is
\* supplied; otherwise {applicationName}.{environmentName}.env under the root.
C11_AsClaimed ==
    pc = "determineOutputPath"
        => LET o == options
               f == FileNameFor(o.envName)
           IN  result.value =
                   IF o.envConfig # JUndefined
                       THEN InDirectory(HintDirectory(o.envConfig.s, o.rootDir), f)
                   ELSE IF o.app # JUndefined
                       THEN InDirectory(HintDirectory(o.app.s, o.rootDir), f)
                   ELSE IF o.autoDetectedDir # JNull
                       THEN InDirectory(o.autoDetectedDir.s, f)
                   ELSE InDirectory(o.rootDir, FlatName(o))

\* a hint that is set to a non-empty string
HintGiven(h) == h.t = "string" /\ h.s # <<>>

\* C11 as amended: determineOutputPath uses the environment-level hint
\* whenever it is a non-empty string; otherwise the application-level hint
\* whenever it is a non-empty string; otherwise the auto-detected directory when
\* one is supplied; otherwise the flat fallback file under the root.  An empty
\* hint counts as unset.
C11_PriorityLaw ==
    pc = "determineOutputPath"
        => LET o == options
               f == FileNameFor(o.envName)
           IN  result.value =
                   IF HintGiven(o.envConfig)
                       THEN InDirectory(HintDirectory(o.envConfig.s, o.rootDir), f)
                   ELSE IF HintGiven(o.app)
                       THEN InDirectory(HintDirectory(o.app.s, o.rootDir), f)
                   ELSE IF o.autoDetectedDir # JNull
                       THEN InDirectory(o.autoDetectedDir.s, f)
                   ELSE InDirectory(o.rootDir, FlatName(o))

\* C11 happens: all three sources are there and the environment's hint wins
C11_Witness ==
    /\ pc = "determineOutputPath"
    /\ options.envConfig = JStr(<<"cfg", "/", "env">>)
    /\ options.app = JStr(<<"/", "srv", "/", "app">>)
    /\ options.autoDetectedDir # JNull
    /\ options.envName = <<"staging">>
    /\ options.rootDir = <<"/", "repo">>
    /\ result.value = <<"/", "repo", "/", "cfg", "/", "env", "/", ".", "env", ".", "staging">>

\* the hint the priority gives the word to, if any
UsedHint(o) ==
    IF HintGiven(o.envConfig) THEN o.envConfig
    ELSE IF HintGiven(o.app) THEN o.app
    ELSE JUndefined

\* C13: when a path hint is the one used, a hint beginning with "/" is the
\* output directory as it stands and any other hint is taken relative to the
\* root directory; the file name put after the directory, an auto-detected one
\* included, is determineFilename(environment name) whatever the application
\* name; determineFilePath and determineOutputPath agree on this.
C13_HintResolution ==
    pc \in {"determineFilePath", "determineOutputPath"}
        => LET o == options
               h == UsedHint(o)
               f == FileNameFor(o.envName)
           IN  /\ (h # JUndefined /\ Head(h.s) = "/") => result.value = h.s \o <<"/">> \o f
               /\ (h # JUndefined /\ Head(h.s) # "/")
                    => result.value = InDirectory(HintDirectory(h.s, o.rootDir), f)
               /\ (h = JUndefined /\ pc = "determineOutputPath" /\ o.autoDetectedDir # JNull)
                    => result.value = o.autoDetectedDir.s \o <<"/">> \o f

\* C13 happens: determineFilePath takes the application's hint from the root
C13_Witness ==
    /\ pc = "determineFilePath"
    /\ options.envConfig = JStr(<<>>)
    /\ options.app = JStr(<<".", ".", "/", "app">>)
    /\ options.rootDir = <<"/", "srv", "/", "mono">>
    /\ options.envName = <<"production">>
    /\ result.value = <<"/", "srv", "/", "app", "/", ".", "env">>

----------------------------------------------------------------------------
(* Claims about validation and parseConfig, checked under SpecParse. *)

\* the value a document's object holds under an own key, if any
Own(x, k) == IF x.t = "object" /\ HasOwn(x, k) THEN Mapped(x, k) ELSE JUndefined

\* the applications of a document, and the environments of its i-th one
DocApps(doc) == IF Own(doc, <<"apps">>).t = "object" THEN Own(doc, <<"apps">>).o ELSE <<>>

DocEnvsOf(doc, i) ==
    LET envs == Own(DocApps(doc)[i].v, <<"environments">>)
    IN  IF envs.t = "object" THEN envs.o ELSE <<>>

HasApplication(doc) == Len(DocApps(doc)) >= 1

EveryAppHasEnvironment(doc) == \A i \in 1..Len(DocApps(doc)) : Len(DocEnvsOf(doc, i)) >= 1

OnlySharedAndApps(doc) ==
    doc.t = "object" /\ \A i \in 1..Len(doc.o) : doc.o[i].k \in {<<"shared">>, <<"apps">>}

\* C14: every document parseConfig accepts has at least one application, at
\* least one environment in every application and no top-level key but shared
\* and apps; a document that breaks one of the three is rejected with a failure
\* value and yields no configuration.
C14_AcceptedShape ==
    pc = "parseConfig"
        => LET shaped == /\ HasApplication(document)
                         /\ EveryAppHasEnvironment(document)
                         /\ OnlySharedAndApps(document)
           IN  /\ result.t = "ok" => shaped
               /\ ~shaped => (result.t = "err" /\ config = EmptyConfig)

\* C14 happens: of two applications the second has no environment
C14_Witness ==
    /\ pc = "parseConfig"
    /\ Len(DocApps(document)) = 2
    /\ Len(DocEnvsOf(document, 1)) = 2
    /\ Len(DocEnvsOf(document, 2)) = 0
    /\ OnlySharedAndApps(document)
    /\ result.t = "err"
    /\ config = EmptyConfig

\* a name that is empty once the whitespace around it is gone
IsBlank(name) == \A i \in 1..Len(name) : name[i] = " "

\* the variables an environment of a document declares
DocVariables(env) ==
    IF Own(env, <<"variables">>).t = "object" THEN Own(env, <<"variables">>).o
    ELSE IF env.t = "object" THEN env.o
    ELSE <<>>

\* C15: in every document validation accepts, every application name, every
\* environment name and every variable name, of extended and of legacy
\* environments, is non-empty after trimming whitespace.
C15_NamesNotBlank ==
    (pc = "parseConfig" /\ result.t = "ok")
        => \A i \in 1..Len(DocApps(document)) :
               /\ ~IsBlank(DocApps(document)[i].k)
               /\ \A j \in 1..Len(DocEnvsOf(document, i)) :
                      /\ ~IsBlank(DocEnvsOf(document, i)[j].k)
                      /\ \A k \in 1..Len(DocVariables(DocEnvsOf(document, i)[j].v)) :
                             ~IsBlank(DocVariables(DocEnvsOf(document, i)[j].v)[k].k)

ScalarValue(v) == v.t \in {"string", "number", "boolean"}

\* a scalar, or an annotated object whose value is a scalar
VariableShape(v) ==
    \/ ScalarValue(v)
    \/ /\ v.t = "object"
       /\ ScalarValue(Own(v, <<"value">>))
       /\ Own(v, <<"comment">>).t \in {"undefined", "string"}
       /\ Own(v, <<"type">>).t \in {"undefined", "string"}

\* the scalar a variable value carries
ScalarOf(v) == IF v.t = "object" THEN Own(v, <<"value">>) ELSE v

\* the shared variables of a document
DocSharedVariables(doc) ==
    IF Own(Own(doc, <<"shared">>), <<"variables">>).t = "object"
        THEN Own(Own(doc, <<"shared">>), <<"variables">>).o
    ELSE <<>>

\* everything but the variable values is as validation wants it
SoundButValues(doc) ==
    /\ OnlySharedAndApps(doc) /\ HasApplication(doc) /\ EveryAppHasEnvironment(doc)
    /\ Own(doc, <<"shared">>).t \in {"undefined", "object"}
    /\ Own(Own(doc, <<"shared">>), <<"variables">>).t \in {"undefined", "object"}
    /\ \A i \in 1..Len(DocApps(doc)) :
           /\ ~IsBlank(DocApps(doc)[i].k)
           /\ Own(DocApps(doc)[i].v, <<"path">>).t \in {"undefined", "string"}
           /\ \A j \in 1..Len(DocEnvsOf(doc, i)) :
                  LET env == DocEnvsOf(doc, i)[j]
                  IN  /\ ~IsBlank(env.k)
                      /\ env.v.t = "object"
                      /\ \A k \in 1..Len(DocVariables(env.v)) : ~IsBlank(DocVariables(env.v)[k].k)

EveryValueShaped(doc) ==
    /\ \A k \in 1..Len(DocSharedVariables(doc)) : ScalarValue(DocSharedVariables(doc)[k].v)
    /\ \A i \in 1..Len(DocApps(doc)) : \A j \in 1..Len(DocEnvsOf(doc, i)) :
           \A k \in 1..Len(DocVariables(DocEnvsOf(doc, i)[j].v)) :
               VariableShape(DocVariables(DocEnvsOf(doc, i)[j].v)[k].v)

\* the configuration holds, place by place, the scalars of the document
ScalarsKept(cfg, doc) ==
    /\ Len(SharedOf(cfg).o) = Len(DocSharedVariables(doc))
    /\ \A k \in 1..Len(DocSharedVariables(doc)) :
           SharedOf(cfg).o[k].v = DocSharedVariables(doc)[k].v
    /\ \A i \in 1..Len(DocApps(doc)) : \A j \in 1..Len(DocEnvsOf(doc, i)) :
           LET cfgEnv == Own(cfg.apps.o[i].v, <<"environments">>).o[j].v
               docEnv == DocEnvsOf(doc, i)[j].v
           IN  \A k \in 1..Len(DocVariables(docEnv)) :
                   ScalarOf(DocVariables(cfgEnv)[k].v) = ScalarOf(DocVariables(docEnv)[k].v)

\* C16: validation accepts a document whose variable values, bare or as the
\* value of an annotated object, and whose shared values are strings, numbers
\* or booleans, keeps every value with its type in the configuration, and
\* rejects a variable value of any other shape.
C16_ScalarsAccepted ==
    (pc = "parseConfig" /\ SoundButValues(document))
        => IF EveryValueShaped(document)
               THEN result.t = "ok" /\ ScalarsKept(config, document)
           ELSE result.t = "err"

RECURSIVE Dotted(_)
Dotted(path) ==
    IF Len(path) = 1 THEN path[1] ELSE path[1] \o <<".">> \o Dotted(Tail(path))

\* the line of one issue: its message and, off the root, its dotted path
IssueLine(issue) ==
    issue.message \o (IF issue.path = <<>> THEN <<>>
                      ELSE <<" at \"">> \o Dotted(issue.path) \o <<"\"">>)

\* validation was reached and failed
ValidationFails == pc = "parseConfig" /\ document.t # "throw" /\ Truthy(document)
                       /\ EnvConfigSchema(document).status # "valid"

\* C17: a validation failure reports every issue found in one message: with one
\* issue "Validation error: <message>" and ` at "<dotted path>"` unless the
\* issue is at the root; with several "Validation errors:" and one "  - " line
\* per issue, in issue order, each with its path.
C17_EveryIssueReported ==
    ValidationFails
        => LET issues == EnvConfigSchema(document).issues
               ls == SplitLines(result.message, <<>>, <<>>)
           IN  /\ result.t = "err"
               /\ Len(issues) >= 1
               /\ Len(issues) = 1 => result.message = <<"Validation error: ">> \o IssueLine(issues[1])
               /\ Len(issues) > 1
                    => /\ ls[1] = <<"Validation errors:">>
                       /\ Len(ls) = Len(issues) + 1
                       /\ \A k \in 1..Len(issues) : ls[k + 1] = <<"  - ">> \o IssueLine(issues[k])

\* C17 happens: three issues, one with a path and two at the root
C17_Witness ==
    /\ ValidationFails
    /\ result = Err(<<"Validation errors:", "\n",
                      "  - ", "At least one environment must be defined",
                      " at \"", "apps", ".", "web", ".", "environments", "\"", "\n",
                      "  - ", "Unrecognized key(s) in object", "\n",
                      "  - ", "Each app must have at least one environment defined">>)

----------------------------------------------------------------------------
(* The command line *)

\* nothing of the configuration file was read or parsed
ConfigUnread == document = JUndefined /\ result = NoResult /\ config = EmptyConfig

\* the one write of the template to the path the run was given
TemplateWrite == <<[path |-> args.config, content |-> DEFAULT_CONFIG]>>

\* C20: --init on a path that exists returns 1 and writes nothing; on a path
\* that does not exist it writes the template to exactly that path and returns
\* 0, or returns 1 with nothing written when the write fails; in no case is
\* the configuration file read or an env file written
C20_InitNeverOverwrites ==
    (pc = "runCLI" /\ args.init) =>
        /\ ConfigUnread
        /\ IF args.config \in disk.exists
               THEN exitCode = Returned(1) /\ written = <<>>
           ELSE IF disk.writable
               THEN exitCode = Returned(0) /\ written = TemplateWrite
           ELSE exitCode = Returned(1) /\ written = <<>>

\* --init wrote the template to a fresh path while another configuration
\* file was there
C20_Witness ==
    /\ pc = "runCLI"
    /\ args.init
    /\ args.config = CustomConfigPath
    /\ disk.exists = {DefaultConfigPath}
    /\ written = TemplateWrite
    /\ exitCode = Returned(0)

\* the pairs of the configuration every variable of which resolves, in order
ResolvingPairs(cfg) ==
    LET resolves(pr) == PairResolves(cfg, pr)
    IN  SelectSeq(DeclaredPairs(cfg), resolves)

\* an apply run that got a valid configuration and whose writes all succeed
ApplyRan ==
    pc = "runCLI" /\ ~args.init /\ args.apply /\ result.t = "ok" /\ disk.writable

\* C19: in apply mode a pair whose content generation fails does not stop the
\* run: the files written are those of the pairs whose generation succeeds, the
\* ones before and the ones after a failing pair alike, in order, no file is
\* written for a failing pair, and the run returns 0
C19_ApplyContinues ==
    ApplyRan =>
        LET good == ResolvingPairs(config)
        IN  /\ exitCode = Returned(0)
            /\ Len(written) = Len(good)
            /\ \A k \in 1..Len(good) :
                 written[k].content = ExpectedContent(config, good[k])

\* C19 happens: of three pairs the second fails; the first and the third are
\* written and the run returns 0
C19_Witness ==
    /\ ApplyRan
    /\ Len(DeclaredPairs(config)) = 3
    /\ PairResolves(config, DeclaredPairs(config)[1])
    /\ ~PairResolves(config, DeclaredPairs(config)[2])
    /\ PairResolves(config, DeclaredPairs(config)[3])
    /\ exitCode = Returned(0)
    /\ Len(written) = 2
    /\ written[1].content = <<"ID", "=", "1", ".", "1", "\n">>
    /\ written[2].content = <<"ID", "=", "2", ".", "1", "\n">>

\* the pairs a run is asked to generate: all of the configuration, or the
\* one the command line names
RequestedPairs ==
    IF args.apply \/ args.all THEN DeclaredPairs(config)
    ELSE <<<<args.app.s, args.env.s>>>>

\* the configuration declares no such application or no such environment
PairMissing(cfg, pr) ==
    \/ ~HasOwn(cfg.apps, pr[1])
    \/ ~HasOwn(Mapped(Mapped(cfg.apps, pr[1]), <<"environments">>), pr[2])

NoActionGiven ==
    ~args.init /\ ~args.apply /\ ~args.all /\ ~(Truthy(args.app) /\ Truthy(args.env))

\* what the specification counts as a failure of the run
RunFails ==
    \/ NoActionGiven
    \* the path to initialize exists, or the template cannot be written
    \/ args.init /\ (args.config \in disk.exists \/ ~disk.writable)
    \* the configuration file cannot be read, or does not validate
    \/ ~args.init /\ ~NoActionGiven /\ result.t # "ok"
    \/ /\ ~args.init /\ ~NoActionGiven /\ result.t = "ok"
       /\ \/ \E k \in 1..Len(RequestedPairs) :
                \/ PairMissing(config, RequestedPairs[k])
                \/ ~PairResolves(config, RequestedPairs[k])
          \* an env file cannot be written
          \/ ~disk.writable

\* the status the process ends with
ExitStatus == exitCode[2]

\* C18: runCLI gives exit status 0 only when the requested action succeeded and
\* 1 on any failure (validation failure, missing application or environment,
\* unresolved shared variable in a pair it was asked to generate, no
\* recognized action), in init, apply, generate-all and generate-one mode alike
C18_ExitStatus ==
    pc = "runCLI" => ExitStatus = (IF RunFails THEN 1 ELSE 0)

----------------------------------------------------------------------------
(* Substitution is one pass, checked under SpecResolve. *)

\* some placeholder of s references a shared string that itself holds
\* placeholder text
NestedReference(s, shared) ==
    \E o \in Occurrences(s) :
        /\ HasOwn(shared, NameOf(s, o))
        /\ Mapped(shared, NameOf(s, o)).t = "string"
        /\ Occurrences(Mapped(shared, NameOf(s, o)).s) # {}

\* C25: substitution is a single pass: when a referenced shared value itself
\* contains ${shared:NAME} text, that text is emitted verbatim, with no further
\* substitution and no missing-variable failure, whether or not NAME is defined
C25_SinglePass ==
    (pc = "resolveVariable" /\ MissingNames(value, sharedVars) = <<>>
        /\ NestedReference(value, sharedVars))
        => /\ result.t = "ok"
           /\ result.value = Substituted(value, sharedVars)
           /\ Occurrences(result.value) # {}

\* C25 happens: A holds the text ${shared:B}; with B undefined and with B
\* defined alike, ${shared:A} resolves to that text
C25_Witness ==
    /\ pc = "resolveVariable"
    /\ value = <<"x">> \o Ph(NameA)
    /\ sharedVars = JObj(<<Entry(NameA, JStr(Ph(NameB)))>>)
    /\ result = Ok(<<"x">> \o Ph(NameB))

----------------------------------------------------------------------------
(* generateAllEnvFiles against generateEnvFile, checked under Spec. *)

\* what generateEnvFile returns for the k-th pair of the configuration
OneOf(cfg, k) ==
    generateEnvFile(cfg, DeclaredPairs(cfg)[k][1], DeclaredPairs(cfg)[k][2]).result

\* C27: for every pair of the configuration the content generateAllEnvFiles
\* returns for it is the content generateEnvFile returns for it, and
\* generateAllEnvFiles fails exactly when generateEnvFile fails for some pair
C27_AllAgreesWithOne ==
    pc = "generateAllEnvFiles" =>
        LET n == Len(DeclaredPairs(config))
        IN  /\ result.t = "err" <=> \E k \in 1..n : OneOf(config, k).t # "ok"
            /\ result.t = "ok" =>
                 /\ Len(result.files) = n
                 /\ \A k \in 1..n : result.files[k].content = OneOf(config, k).value

\* C27 happens: three pairs generated, each with the content generateEnvFile
\* gives for it, neighbours differing
C27_Witness ==
    /\ pc = "generateAllEnvFiles"
    /\ result.t = "ok"
    /\ Len(result.files) = 3
    /\ \A k \in 1..3 : /\ OneOf(config, k).t = "ok"
                       /\ result.files[k].content = OneOf(config, k).value
    /\ result.files[1].content # result.files[2].content
    /\ result.files[2].content # result.files[3].content

----------------------------------------------------------------------------
(* Legacy-form environments, checked under Spec. *)

\* the environment is a flat map: it has no `variables` key
LegacyForm(env) == ~HasOwn(env, <<"variables">>)

\* where generateAllEnvFiles puts the file of a pair when the environment
\* gives no hint
PathWithoutEnvHint(cfg, pr, out, root) ==
    IF HasOwn(Mapped(cfg.apps, pr[1]), <<"path">>)
        THEN determineFilePath([appName |-> pr[1], envName |-> pr[2],
                                app |-> Mapped(Mapped(cfg.apps, pr[1]), <<"path">>),
                                envConfig |-> JUndefined,
                                outputDir |-> out, rootDir |-> root])
    ELSE FlatFile(out, pr)

\* C24: no key of a legacy-form environment is used as a path hint: a variable
\* named `path` is rendered as an assignment line and the file is placed as if
\* the environment gave no hint
C24_LegacyHasNoHint ==
    (pc = "generateAllEnvFiles" /\ result.t = "ok") =>
        \A k \in 1..Len(DeclaredPairs(config)) :
            LET pr == DeclaredPairs(config)[k]
            IN  LegacyForm(EnvironmentOf(config, pr[1], pr[2])) =>
                    /\ result.files[k].content = ExpectedContent(config, pr)
                    /\ result.files[k].path
                         = PathWithoutEnvHint(config, pr, outputDir, rootDir)

----------------------------------------------------------------------------
(* Generate-all mode, checked under SpecCLI. *)

\* the directory a file is in: its path up to the last "/", or "." when the
\* path is a bare file name
DirectoryOf(path) ==
    IF \E i \in 2..Len(path) : path[i] = "/" THEN ParentOf(path) ELSE <<".">>

\* a generate-all run that got a valid configuration
AllRan == pc = "runCLI" /\ ~args.init /\ ~args.apply /\ args.all /\ result.t = "ok"

\* the entries generateAllEnvFiles returns for the configuration of the run
ReturnedEntries == generateAllEnvFiles(config, <<".">>, ProcessCwd)

\* C28: generate-all mode writes no file and creates no directory unless every
\* pair's content generates: when one fails it returns 1 with nothing written
\* and no directory created; when none fails each returned entry is written
\* once, in the order of the result, its directory created just before, and
\* the run returns 0
C28_AllOrNothing ==
    AllRan =>
        LET pairs == DeclaredPairs(config)
            fails == \E k \in 1..Len(pairs) : ~PairResolves(config, pairs[k])
        IN  /\ fails => exitCode = Returned(1) /\ calls = <<>>
            /\ calls # <<>> => ~fails
            /\ (~fails /\ disk.writable) =>
                   LET files == ReturnedEntries.files
                   IN  /\ exitCode = Returned(0)
                       /\ Len(written) = Len(pairs)
                       /\ Len(files) = Len(pairs)
                       /\ \A k \in 1..Len(pairs) : written[k] = files[k]
                       /\ Len(calls) = 2 * Len(pairs)
                       /\ \A k \in 1..Len(pairs) :
                              /\ calls[2 * k - 1].op = "mkdir"
                              /\ calls[2 * k - 1].path = DirectoryOf(files[k].path)
                              /\ calls[2 * k].op = "writeFile"
                              /\ calls[2 * k].path = files[k].path
            /\ exitCode = Returned(0) => ~fails /\ Len(written) = Len(pairs)

\* a generate-all run over three pairs writes three files to three places
C28_Witness ==
    /\ AllRan
    /\ exitCode = Returned(0)
    /\ Len(written) = 3
    /\ Len(calls) = 6
    /\ written[1].path # written[2].path
    /\ written[2].path # written[3].path
    /\ \E k \in 1..3 : calls[2 * k - 1].path # <<".">>

\* a generate-all run one pair of which fails after one that generates
C28_WitnessFailure ==
    /\ AllRan
    /\ exitCode = Returned(1)
    /\ calls = <<>>
    /\ Len(DeclaredPairs(config)) >= 2
    /\ PairResolves(config, DeclaredPairs(config)[1])

----------------------------------------------------------------------------
(* The precedence of the actions, checked under SpecCLI. *)

\* the command line a with everything but the action of highest precedence
\* taken away: init, then apply, then generate-all, then generate-one
ChosenAction(a) ==
    IF a.init THEN ArgsOf(TRUE, FALSE, FALSE, JUndefined, JUndefined, a.config)
    ELSE IF a.apply THEN ArgsOf(FALSE, TRUE, FALSE, JUndefined, JUndefined, a.config)
    ELSE IF a.all THEN ArgsOf(FALSE, FALSE, TRUE, JUndefined, JUndefined, a.config)
    ELSE a

\* the run did what the run of the command line a does on the same file system
RanAs(a) ==
    LET r == runCLI(disk, a)
    IN  exitCode = r.code /\ calls = r.calls /\ document = r.read

\* C29: a run does what the one action of highest precedence among those its
\* command line names does alone (init, then apply, then generate-all, then
\* generate-one); with init the configuration file is not read; with no action,
\* or with only one of --app and --env, it returns 1 and neither reads the
\* configuration file nor writes
C29_OneActionByPrecedence ==
    pc = "runCLI" =>
        /\ RanAs(ChosenAction(args))
        /\ args.init => ConfigUnread /\ written \in {<<>>, TemplateWrite}
        /\ NoActionGiven => exitCode = Returned(1) /\ ConfigUnread /\ calls = <<>>
        /\ (~args.init /\ args.apply /\ result.t = "ok") => exitCode # Returned(1)
        /\ (~args.init /\ ~args.apply /\ args.all /\ result.t = "ok" /\ disk.writable) =>
               (exitCode = Returned(0) => Len(written) = Len(DeclaredPairs(config)))
        /\ (~args.init /\ ~args.apply /\ ~args.all) => Len(written) <= 1

\* --apply, --all, --app and --env together: the run is an apply run, the file
\* is put in the application's directory and the failing pair is passed over
C29_Witness ==
    /\ pc = "runCLI"
    /\ args = ArgsOf(FALSE, TRUE, TRUE, JStr(AppNameAt(1)), JStr(EnvNameAt(1)),
                     DefaultConfigPath)
    /\ exitCode = Returned(0)
    /\ \E k \in 1..Len(DeclaredPairs(config)) : ~PairResolves(config, DeclaredPairs(config)[k])
    /\ written # <<>>
    /\ \A k \in 1..Len(written) :
           SubSeq(written[k].path, 1, 5)
               = ProcessCwd \o <<"/", "packages", "/">>

----------------------------------------------------------------------------
(* Writing the files, checked under SpecCLI. *)

\* the run generates env files: it is not an --init run
GeneratingRun == pc = "runCLI" /\ ~args.init

\* what generateEnvFile makes of the pair
GeneratedFor(cfg, pr) == generateEnvFile(cfg, pr[1], pr[2]).result

\* the pairs of the run whose content generates
GeneratedPairs ==
    LET generates(pr) == GeneratedFor(config, pr).t = "ok"
    IN  SelectSeq(RequestedPairs, generates)

\* the path the mode of the run computes for the pair
PathComputed(pr) ==
    LET app == Get(config.apps, pr[1])
        env == Get(Get(app, <<"environments">>), pr[2])
    IN  IF args.apply
            THEN determineOutputPath(
                     [appName |-> pr[1], envName |-> pr[2], app |-> Get(app, <<"path">>),
                      envConfig |-> cliGetEnvironmentConfig(env),
                      autoDetectedDir |-> findAppDirectory(disk, pr[1], ProcessCwd),
                      outputDir |-> <<>>, rootDir |-> ProcessCwd])
        ELSE IF args.all
            THEN determineFilePath(
                     [appName |-> pr[1], envName |-> pr[2], app |-> Get(app, <<"path">>),
                      envConfig |-> getEnvironmentConfig(env),
                      outputDir |-> <<".">>, rootDir |-> ProcessCwd])
        ELSE determineOutputPath(
                 [appName |-> pr[1], envName |-> pr[2], app |-> Get(app, <<"path">>),
                  envConfig |-> cliGetEnvironmentConfig(env),
                  autoDetectedDir |-> JNull,
                  outputDir |-> <<>>, rootDir |-> ProcessCwd])

\* C26: in apply, generate-all and generate-one mode a file is written only
\* for a pair whose content generateEnvFile has produced; what is written is
\* that content, at the path the mode computes for the pair; and the call
\* before each writeFile is the mkdir of the directory the file is in
C26_WriteAfterGenerate ==
    GeneratingRun =>
        /\ result.t # "ok" => calls = <<>>
        /\ Len(calls) = 2 * Len(written)
        /\ \A k \in 1..Len(written) :
               /\ calls[2 * k - 1] = MkdirCall(DirectoryOf(written[k].path))
               /\ calls[2 * k] = WriteCall(written[k].path, written[k].content)
        /\ written # <<>> =>
               /\ Len(written) = Len(GeneratedPairs)
               /\ \A k \in 1..Len(written) :
                      /\ written[k].content = GeneratedFor(config, GeneratedPairs[k]).value
                      /\ written[k].path = PathComputed(GeneratedPairs[k])

\* an apply run passes over a failing pair and writes the file of the other
\* into the directory found for the application
C26_Witness ==
    /\ GeneratingRun
    /\ args.apply
    /\ Len(RequestedPairs) = 2
    /\ Len(GeneratedPairs) = 1
    /\ Len(written) = 1
    /\ calls[1].op = "mkdir"
    /\ calls[1].path = ProcessCwd \o <<"/", "packages", "/">> \o AppNameAt(1)
    /\ calls[2].op = "writeFile"

\* a generate-one run whose pair does not generate writes nothing
C26_WitnessNothing ==
    /\ GeneratingRun
    /\ ~args.apply /\ ~args.all
    /\ result.t = "ok"
    /\ GeneratedFor(config, RequestedPairs[1]).t = "err"
    /\ calls = <<>>

----------------------------------------------------------------------------
(* The paths of one result, checked under Spec. *)

\* validation accepts the configuration
Accepted(cfg) == parseConfig(DocOf(cfg.shared, cfg.apps, FALSE)).result.t = "ok"

\* C30: for a configuration that validation accepts, the paths of the entries
\* of a successful generateAllEnvFiles result are pairwise distinct
C30_DistinctPaths ==
    (pc = "generateAllEnvFiles" /\ result.t = "ok") =>
        \A j, k \in 1..Len(result.files) :
            (j < k /\ result.files[j].path = result.files[k].path) => ~Accepted(config)

----------------------------------------------------------------------------
(* Repeated calls, checked under SpecCalls. *)

\* calls i and j were given the same configuration, application and environment
SameArguments(i, j) ==
    /\ history[i].config = history[j].config
    /\ history[i].appName = history[j].appName
    /\ history[i].environment = history[j].environment

\* C23: two calls of generateEnvFile with the same configuration, application
\* and environment return the same result, whatever calls were made before and
\* between them; each call returns what a first call on a fresh module returns,
\* and the placeholder pattern is left as it was found
C23_SameCallSameResult ==
    /\ \A i, j \in 1..Len(history) :
           SameArguments(i, j) => history[i].result = history[j].result
    /\ \A i \in 1..Len(history) :
           history[i].result
               = generateEnvFileFrom(history[i].config, history[i].appName,
                                     history[i].environment, 0).result
    /\ lastIndex = 0

\* the same pair generated before and after a call for another configuration
\* and a call that fails
C23_Witness ==
    /\ Len(history) = 3
    /\ SameArguments(1, 3)
    /\ ~SameArguments(1, 2)
    /\ history[2].result.t = "err"
    /\ history[1].result = Ok(<<"URL", "=", "x", "v", "\n", "ID", "=", "v", "v", "\n">>)
    /\ history[3].result = history[1].result

----------------------------------------------------------------------------
(* findAppDirectory, checked under SpecFind. *)

\* how many "/" the name holds
RECURSIVE Separators(_)
Separators(name) ==
    IF name = <<>> THEN 0
    ELSE (IF Head(name) = "/" THEN 1 ELSE 0) + Separators(Tail(name))

\* {root}/packages/{name}, {root}/apps/{name}, {root}/{name}
ThreePlaces(name, root) ==
    <<root \o <<"/", "packages", "/">> \o name,
      root \o <<"/", "apps", "/">> \o name,
      root \o <<"/">> \o name>>

\* paths up to the first one that exists, all of them when none does
UpToFirstExisting(paths) ==
    IF \E i \in 1..Len(paths) : paths[i] \in disk.exists
        THEN SubSeq(paths, 1, CHOOSE i \in 1..Len(paths) :
                                  /\ paths[i] \in disk.exists
                                  /\ \A j \in 1..(i - 1) : paths[j] \notin disk.exists)
    ELSE paths

\* the call looked at the paths in order, stopped at the first that exists and
\* returned it, or returned null after the last
ProbedInOrder(paths) ==
    /\ calls = UpToFirstExisting(paths)
    /\ result = IF calls[Len(calls)] \in disk.exists THEN JStr(calls[Len(calls)])
                ELSE JNull

\* C22 as stated: every name of two segments is looked for a second time, at
\* the same three places joined with its two segments
C22_TwoSegmentsProbedAgain ==
    pc = "findAppDirectory" =>
        ProbedInOrder(ThreePlaces(appName, rootDir)
                        \o (IF Separators(appName) = 1 THEN ThreePlaces(appName, rootDir)
                            ELSE <<>>))

\* C22: findAppDirectory looks at {root}/packages/{name}, {root}/apps/{name}
\* and {root}/{name} in this order and returns the first that exists; for a
\* name of two segments that begins with "@" it then looks at the same three
\* places joined with the two segments; it returns null only when nothing it
\* looked at exists, and what it returns it has looked at and found
C22_ScopedProbedAgain ==
    pc = "findAppDirectory" =>
        /\ ProbedInOrder(ThreePlaces(appName, rootDir)
                           \o (IF Separators(appName) = 1 /\ Head(appName) = "@"
                                   THEN ThreePlaces(appName, rootDir)
                               ELSE <<>>))
        /\ result # JNull => \E i \in 1..Len(calls) :
                                 result = JStr(calls[i]) /\ calls[i] \in disk.exists
        /\ result = JNull => \A i \in 1..Len(calls) : calls[i] \notin disk.exists

\* the directory under packages is returned though the ones under apps and at
\* the root exist as well
C22_Witness ==
    /\ pc = "findAppDirectory"
    /\ appName = AppNameAt(1)
    /\ ThreePlaces(appName, rootDir)[2] \in disk.exists
    /\ ThreePlaces(appName, rootDir)[3] \in disk.exists
    /\ result = JStr(ThreePlaces(appName, rootDir)[1])
    /\ calls = <<ThreePlaces(appName, rootDir)[1]>>

\* a scoped name that is nowhere is looked for six times
C22_WitnessScoped ==
    /\ pc = "findAppDirectory"
    /\ appName = NameScoped
    /\ result = JNull
    /\ Len(calls) = 6

----------------------------------------------------------------------------
(* The accessors of the configuration model, checked under SpecModel. *)

\* the model declares the application, and the environment in it
DeclaresApp(cfg, app) == \E i \in 1..Len(cfg.apps.o) : cfg.apps.o[i].k = app

DeclaresEnvironment(cfg, app, env) ==
    /\ DeclaresApp(cfg, app)
    /\ LET envs == Mapped(Mapped(cfg.apps, app), <<"environments">>).o
       IN  \E j \in 1..Len(envs) : envs[j].k = env

\* the names in the list
Listed(ns) == {ns[i] : i \in 1..Len(ns)}

\* C21: hasApp(a) is true exactly when a is listed by getAppNames() and exactly
\* when getApp(a) returns an application; hasEnvironment(a, e) is true exactly
\* when e is listed by getEnvironmentNames(a) and exactly when
\* getEnvironment(a, e) returns an environment; for an application that is
\* absent getEnvironmentNames gives the empty list and getEnvironment and
\* hasEnvironment report absence; no accessor raises
C21_AccessorsAgree ==
    /\ pc \in {"getAppNames", "getApp", "getEnvironmentNames", "getEnvironment",
               "hasApp", "hasEnvironment"} => result.t = "returned"
    /\ pc = "getAppNames" =>
           \A a \in AskedApps : a \in Listed(result.names) <=> DeclaresApp(config, a)
    /\ pc = "hasApp" => result.v = JBool(DeclaresApp(config, appName))
    /\ pc = "getApp" =>
           result.v = IF DeclaresApp(config, appName) THEN Mapped(config.apps, appName)
                      ELSE JUndefined
    /\ pc = "getEnvironmentNames" =>
           \A e \in AskedEnvs :
               e \in Listed(result.names) <=> DeclaresEnvironment(config, appName, e)
    /\ pc = "hasEnvironment" =>
           result.v = JBool(DeclaresEnvironment(config, appName, environment))
    /\ pc = "getEnvironment" =>
           result.v = IF DeclaresEnvironment(config, appName, environment)
                          THEN Mapped(Mapped(Mapped(config.apps, appName),
                                             <<"environments">>), environment)
                      ELSE JUndefined

====
